---- MODULE Spec2Model ----
(***************************************************************************)
(* librseq: the rseq CPU-Local Storage memory pool allocator               *)
(* (src/src/rseq-percpu-alloc.c), as a state machine of threads calling    *)
(* its entry points on the process-wide pool directory.                    *)
(*                                                                         *)
(* A machine word (uintptr_t, 64 bits) is held as four 16-bit limbs, least *)
(* significant first, because the handle encoding shifts by 48 bits.       *)
(* Addresses of mapped memory are small enough to be held as naturals.     *)
(* Memory is an array of machine words, held sparsely: a word that is not  *)
(* in the domain of mem reads as zero (fresh anonymous mappings are zero). *)
(* A bitmap word (unsigned long) is held as the set of its one bits.       *)
(***************************************************************************)
EXTENDS Integers, Sequences, FiniteSets, TLC

(* ------------------------------------------------------------------ *)
(* Platform and program constants                                     *)
(* ------------------------------------------------------------------ *)
RSEQ_BITS_PER_LONG == 64
POOL_INDEX_BITS == 16
INT_BITS == 32
POOL_SET_MIN_ENTRY == 3
FIRST_POOL == 1
ENOENT == 2
ENOMEM == 12
EINVAL == 22
PAGE_LEN == 4096
RSEQ_POOL_ROBUST == 1

MAX_NR_POOLS == 2 ^ POOL_INDEX_BITS
POOL_INDEX_SHIFT == RSEQ_BITS_PER_LONG - POOL_INDEX_BITS
BIT_PER_ULONG == 8 * (RSEQ_BITS_PER_LONG \div 8)
WORD_BYTES == RSEQ_BITS_PER_LONG \div 8
RSEQ_POOL_FLAGS == {RSEQ_POOL_ROBUST}
NULL == 0
NoThread == "none"

(* ------------------------------------------------------------------ *)
(* Bounds of the model                                                *)
(* ------------------------------------------------------------------ *)
MaxCreates == 1
MaxDestroys == 1
MaxFrees == 2
MaxWrites == 1

Threads == {"t1", "t2"}
UserValue == 165

(* ------------------------------------------------------------------ *)
(* Machine words as limbs                                             *)
(* ------------------------------------------------------------------ *)
LimbBits == POOL_INDEX_BITS
LimbBase == 2 ^ LimbBits
NrLimbs == RSEQ_BITS_PER_LONG \div LimbBits
NullWord == [k \in 1..NrLimbs |-> 0]

RECURSIVE NatLimbs(_, _)
NatLimbs(n, k) == IF k = 0 THEN <<>> ELSE <<n % LimbBase>> \o NatLimbs(n \div LimbBase, k - 1)

(* (uintptr_t) n *)
ToWord(n) == NatLimbs(n, NrLimbs)

(* w << s, for s a multiple of the limb width; bits shifted out are lost *)
WordShl(w, s) ==
    LET d == s \div LimbBits
    IN  [k \in 1..NrLimbs |-> IF k > d THEN w[k - d] ELSE 0]

(* w >> s, for s a multiple of the limb width *)
WordShr(w, s) ==
    LET d == s \div LimbBits
    IN  [k \in 1..NrLimbs |-> IF k + d <= NrLimbs THEN w[k + d] ELSE 0]

RECURSIVE BitOr(_, _)
BitOr(a, b) ==
    IF a = 0 THEN b
    ELSE IF b = 0 THEN a
    ELSE (IF a % 2 = 1 \/ b % 2 = 1 THEN 1 ELSE 0) + 2 * BitOr(a \div 2, b \div 2)

WordOr(a, b) == [k \in 1..NrLimbs |-> BitOr(a[k], b[k])]

(* w & MAX_POOL_LEN_MASK: the low POOL_INDEX_SHIFT bits *)
MaskPoolLen(w) ==
    [k \in 1..NrLimbs |-> IF k <= POOL_INDEX_SHIFT \div LimbBits THEN w[k] ELSE 0]

(* a + b modulo 2^RSEQ_BITS_PER_LONG *)
RECURSIVE AddLimbs(_, _, _, _)
AddLimbs(a, b, k, carry) ==
    IF k > NrLimbs THEN <<>>
    ELSE <<(a[k] + b[k] + carry) % LimbBase>>
         \o AddLimbs(a, b, k + 1, (a[k] + b[k] + carry) \div LimbBase)

WordAdd(a, b) == AddLimbs(a, b, 1, 0)

RECURSIVE LimbsNat(_, _)
LimbsNat(w, k) == IF k > Len(w) THEN 0 ELSE w[k] + LimbBase * LimbsNat(w, k + 1)

(* The value of a word whose high limbs are zero *)
WordLow(w) == LimbsNat(SubSeq(w, 1, 2), 1)
WordFitsNat(w) == w[3] = 0 /\ w[4] = 0 /\ w[2] < LimbBase \div 2

(* ------------------------------------------------------------------ *)
(* Helpers of rseq-alloc-utils.h                                      *)
(* ------------------------------------------------------------------ *)
RECURSIVE OrderFrom(_, _)
OrderFrom(x, o) == IF 2 ^ o >= x THEN o ELSE OrderFrom(x, o + 1)

(* Order of the smallest power of two >= x; -1 for x = 0 *)
rseq_get_count_order_ulong(x) == IF x = 0 THEN -1 ELSE OrderFrom(x, 0)

(* v rounded up to a multiple of align (a power of two) *)
rseq_align(v, align) == ((v + align - 1) \div align) * align

rseq_get_page_len == PAGE_LEN

(* ------------------------------------------------------------------ *)
(* State                                                              *)
(* ------------------------------------------------------------------ *)
VARIABLES
    rseq_percpu_pool,  \* the directory: index -> struct rseq_percpu_pool; an index
                       \* outside the domain is an all-zero struct
    pool_lock,         \* owner of the create/destroy mutex
    mem,               \* word address -> non-zero word stored there
    pc,                \* where each thread is inside the entry point it called
    local,             \* the locals of the call each thread is in
    ret,               \* the call that returned last: its thread, what it returned, and
                       \* the value it stored to errno (0: it stored none)
    held,              \* the handles each caller got from malloc and has not freed
    count,             \* how many creates, destroys, frees, writes were begun
    freed,             \* history: per pool, the handles freed and not handed out again
                       \* since, the last freed first
    aborted,           \* "no", or the function whose assert() failed: the process is gone
    pool_set,          \* the one struct rseq_percpu_pool_set of the callers
    set_call,          \* the pool set call each thread is in, and its locals
    __lib_rseq_abi,    \* each thread's struct libc_rseq: cpu_id and refcount
    kernel,            \* the kernel's side of rseq: the threads registered, the calls made
    rseq_users         \* history: per thread, the register calls that succeeded and the
                       \* unregister calls

rseq_vars == <<__lib_rseq_abi, kernel, rseq_users>>

vars == <<rseq_percpu_pool, pool_lock, mem, pc, local, ret, held, count, freed, aborted,
          pool_set, set_call, rseq_vars>>

NULL_BITMAP == <<>>

(* A __u32 as two limbs of 16 bits, the high one first *)
U32Zero == <<0, 0>>
U32Inc(x) == IF x[2] = 65535 THEN <<(x[1] + 1) % 65536, 0>> ELSE <<x[1], x[2] + 1>>
U32Dec(x) == IF x[2] = 0 THEN <<(x[1] + 65535) % 65536, 65535>> ELSE <<x[1], x[2] - 1>>

RSEQ_CPU_ID_UNINITIALIZED == -1
RSEQ_CPU_ID_REGISTRATION_FAILED == -2
RSEQ_FLAG_UNREGISTER == 1
ENOSYS == 38

ZeroPool ==
    [base |-> NULL, index |-> 0, item_len |-> 0, percpu_len |-> 0, item_order |-> 0,
     max_nr_cpus |-> 0, free_list_head |-> NULL, next_unused |-> 0, lock |-> NoThread,
     free_bitmap |-> NULL_BITMAP]

PoolAt(i) == IF i \in DOMAIN rseq_percpu_pool THEN rseq_percpu_pool[i] ELSE ZeroPool

(* The directory is the sequence of its structs up to the last one that is not
   all zero: dir without the zeroed structs at its end *)
TrimPools(dir) ==
    IF dir = <<>> \/ dir[Len(dir)] # ZeroPool
    THEN dir
    ELSE IF \A j \in 1..Len(dir) : dir[j] = ZeroPool
    THEN <<>>
    ELSE SubSeq(dir, 1, CHOOSE j \in 1..Len(dir) :
                            /\ dir[j] # ZeroPool
                            /\ \A k \in (j + 1)..Len(dir) : dir[k] = ZeroPool)

(* The directory with struct i set to r *)
PoolStore(dir, i, r) ==
    LET padded == IF i <= Len(dir) THEN dir
                  ELSE dir \o [k \in 1..(i - Len(dir)) |-> ZeroPool]
    IN  TrimPools([padded EXCEPT ![i] = r])

LivePools == {i \in DOMAIN rseq_percpu_pool : rseq_percpu_pool[i].base # NULL}

NoLocal ==
    [pool |-> 0, zeroed |-> FALSE, node |-> NULL, item_offset |-> 0, addr |-> NullWord,
     item_len |-> 0, percpu_len |-> 0, percpu_len_w |-> NullWord, max_nr_cpus |-> 0,
     order |-> 0, flags |-> {}, init_priv |-> NULL]

NoRet == [thread |-> NoThread, op |-> "none", pool |-> 0, val |-> 0, errno |-> 0]

(* No pool set: rseq_percpu_pool_set_create was not called, or the set was freed.
   entries maps an order to the pool stored there; a NULL entry is outside its
   domain.  added is history: the pools the set was given. *)
NoPoolSet == [alive |-> FALSE, lock |-> NoThread, entries |-> <<>>, added |-> {}]

(* The locals of a pool set call; stage is where the call is, val and errno are what
   the pool function it called last returned and stored to errno *)
NoSetCall ==
    [op |-> "none", stage |-> "none", len |-> 0, zeroed |-> FALSE, order |-> 0,
     min_order |-> 0, pool |-> 0, entry |-> NULL, val |-> NullWord, errno |-> 0]

(* Memory *)
MemRead(m, a) == IF a \in DOMAIN m THEN m[a] ELSE 0

MemWrite(m, a, v) ==
    IF v = 0 THEN [x \in DOMAIN m \ {a} |-> m[x]] ELSE (a :> v) @@ m

(* memset(p, 0, len) *)
MemZero(m, p, len) == [x \in {y \in DOMAIN m : y < p \/ y >= p + len} |-> m[x]]

(* munmap(p, len): the words are gone *)
MemUnmap(m, p, len) == MemZero(m, p, len)

(* Bags of handles *)
BagAdd(b, x) == IF x \in DOMAIN b THEN [b EXCEPT ![x] = @ + 1] ELSE (x :> 1) @@ b

BagRemove(b, x) ==
    IF b[x] > 1 THEN [b EXCEPT ![x] = @ - 1] ELSE [y \in DOMAIN b \ {x} |-> b[y]]

EmptyBag == <<>>

(* ------------------------------------------------------------------ *)
(* Handles and addresses                                              *)
(* ------------------------------------------------------------------ *)
(* Mutant: the cpus' copies of an item are item_len apart *)
PercpuPtrItemStride(pool, cpu, item_offset) ==
    pool.base + (pool.item_len * cpu) + item_offset

(* pool->base + (pool->percpu_len * cpu) + item_offset *)
__rseq_pool_percpu_ptr(pool, cpu, item_offset) ==
    pool.base + (pool.percpu_len * cpu) + item_offset

(* ptr & MAX_POOL_LEN_MASK *)
HandleItemOffset(ptr) == WordLow(MaskPoolLen(ptr))

(* ptr >> POOL_INDEX_SHIFT *)
HandlePoolIndex(ptr) == WordLow(WordShr(ptr, POOL_INDEX_SHIFT))

__rseq_percpu_ptr(ptr, cpu) ==
    __rseq_pool_percpu_ptr(PoolAt(HandlePoolIndex(ptr)), cpu, HandleItemOffset(ptr))

(* The macro rseq_percpu_ptr of rseq/mempool.h:
   (uintptr_t) ptr + (unsigned int) cpu * (uintptr_t) stride *)
rseq_percpu_ptr(ptr, cpu, stride) == WordAdd(ptr, ToWord(cpu * stride))

(* rseq_mempool_malloc of rseq/mempool.h: the handle cast to a plain pointer *)
rseq_mempool_malloc_cast(ptr) == ptr

(* Mutant: the pool index is not shifted to the high bits *)
EncodeHandleNoShift(index, item_offset) == WordOr(ToWord(index), ToWord(item_offset))

(* ((uintptr_t) pool->index << POOL_INDEX_SHIFT) | item_offset *)
EncodeHandle(index, item_offset) ==
    WordOr(WordShl(ToWord(index), POOL_INDEX_SHIFT), ToWord(item_offset))

(* ------------------------------------------------------------------ *)
(* The free bitmap of a robust pool                                   *)
(* ------------------------------------------------------------------ *)
BitmapWords(nr_items) == (nr_items + BIT_PER_ULONG - 1) \div BIT_PER_ULONG

(* calloc(count, sizeof(unsigned long)): all bits zero *)
create_free_bitmap(nr_items) == [k \in 1..BitmapWords(nr_items) |-> {}]

(* Some word of the bitmap is not zero: destroy_free_bitmap's assert fails *)
destroy_free_bitmap_aborts(bitmap, nr_items) ==
    /\ bitmap # NULL_BITMAP
    /\ \E k \in 1..BitmapWords(nr_items) : bitmap[k] # {}

(* 1ULL << n *)
ULongBit(n) == {n}

(* The int value 1 << n converted to unsigned long, for n < BIT_PER_ULONG.
   1 << 31 is INT_MIN, which sign-extends.  A shift by the width of int or more
   is undefined: the builds produce the shift count taken modulo the width
   (x86-64, aarch64, riscv64), zero (ppc64 slw), or the shift done at the
   width of the destination. *)
IntShlSignExt(n) ==
    IF n = INT_BITS - 1 THEN (INT_BITS - 1)..(BIT_PER_ULONG - 1) ELSE {n}

IntBitMasks(n) ==
    IF n < INT_BITS
    THEN {IntShlSignExt(n)}
    ELSE {IntShlSignExt(n % INT_BITS), {}, {n}}

(* mask_free_slot: [abort, bitmap] *)
mask_free_slot(bitmap, item_index) ==
    IF bitmap = NULL_BITMAP
    THEN [abort |-> FALSE, bitmap |-> bitmap]
    ELSE LET k == item_index \div BIT_PER_ULONG + 1
             mask == ULongBit(item_index % BIT_PER_ULONG)
         IN  IF bitmap[k] \cap mask # {}
             THEN [abort |-> TRUE, bitmap |-> bitmap]
             ELSE [abort |-> FALSE, bitmap |-> [bitmap EXCEPT ![k] = @ \cup mask]]

(* unmask_free_slot with the mask the build computed: [abort, bitmap] *)
unmask_free_slot(bitmap, item_index, mask) ==
    IF bitmap = NULL_BITMAP
    THEN [abort |-> FALSE, bitmap |-> bitmap]
    ELSE LET k == item_index \div BIT_PER_ULONG + 1
         IN  IF ~(mask \subseteq bitmap[k])
             THEN [abort |-> TRUE, bitmap |-> bitmap]
             ELSE [abort |-> FALSE, bitmap |-> [bitmap EXCEPT ![k] = @ \ mask]]

(* The masks unmask_free_slot may compute for an item *)
UnmaskMasks(bitmap, item_index) ==
    IF bitmap = NULL_BITMAP THEN {{}} ELSE IntBitMasks(item_index % BIT_PER_ULONG)

(* ------------------------------------------------------------------ *)
(* The mapping backend and the C library, as the environment          *)
(* ------------------------------------------------------------------ *)
NrMmapAddrs == 2
MmapSpacing == 64 * PAGE_LEN
MmapAddrs == {MmapSpacing * k : k \in 1..NrMmapAddrs}

PoolMapLen(pool) == pool.percpu_len * pool.max_nr_cpus

(* The addresses where a region of len bytes overlaps no live mapping *)
MmapFits(len) ==
    {b \in MmapAddrs :
        /\ len > 0
        /\ len <= MmapSpacing
        /\ \A i \in DOMAIN rseq_percpu_pool :
              LET pool == rseq_percpu_pool[i]
              IN  \/ pool.base = NULL
                  \/ b + len <= pool.base
                  \/ pool.base + PoolMapLen(pool) <= b}

(* mmap_func(priv, len): NULL, or the base of a fresh region; the kernel places it
   at the lowest address that fits *)
MmapResults(len) ==
    LET fits == MmapFits(len)
    IN  {NULL} \cup {b \in fits : \A c \in fits : b <= c}

(* munmap_func(priv, ptr, len): 0, or -1 with errno set *)
MunmapResults == {0, -1}

(* ------------------------------------------------------------------ *)
(* Threads                                                            *)
(* ------------------------------------------------------------------ *)
(* sys_rseq exists in the running kernel or not; no thread is registered *)
BootKernel(available) ==
    [available |-> available,
     registered |-> [t \in Threads |-> FALSE],
     calls |-> [t \in Threads |-> [register |-> 0, unregister |-> 0]]]

(* __lib_rseq_abi = { .cpu_id = RSEQ_CPU_ID_UNINITIALIZED } in every thread *)
InitRseqAbi ==
    /\ __lib_rseq_abi = [t \in Threads |->
                            [cpu_id |-> RSEQ_CPU_ID_UNINITIALIZED, refcount |-> U32Zero]]
    /\ rseq_users = [t \in Threads |-> [registered |-> 0, unregistered |-> 0]]

Init ==
    /\ InitRseqAbi
    /\ kernel = BootKernel(TRUE)
    /\ rseq_percpu_pool = <<>>
    /\ pool_lock = NoThread
    /\ mem = <<>>
    /\ pc = [t \in Threads |-> "idle"]
    /\ local = [t \in Threads |-> NoLocal]
    /\ ret = NoRet
    /\ held = [t \in Threads |-> EmptyBag]
    /\ count = [create |-> 0, destroy |-> 0, free |-> 0, write |-> 0]
    /\ freed = <<>>
    /\ aborted = "no"
    /\ pool_set = NoPoolSet
    /\ set_call = [t \in Threads |-> NoSetCall]

(* The handles of pool i freed and not handed out again, the last freed first *)
FreedOf(i) == IF i \in DOMAIN freed THEN freed[i] ELSE <<>>

(* The call of thread t returns val *)
Return(t, op, pool, val, err) ==
    /\ pc' = [pc EXCEPT ![t] = "idle"]
    /\ local' = [local EXCEPT ![t] = NoLocal]
    /\ ret' = [thread |-> t, op |-> op, pool |-> pool, val |-> val, errno |-> err]
    /\ set_call' = [set_call EXCEPT ![t] =
          IF @.op = "none" THEN @
          ELSE [@ EXCEPT !.stage = "returned", !.val = val, !.errno = err]]

(* Mutant: the directory mutex excludes nobody *)
DirLockFreeNoMutex == TRUE

(* pthread_mutex_lock(&pool_lock) can return *)
DirLockFree == pool_lock = NoThread

(* Mutant: the pool mutex excludes nobody *)
PoolLockFreeNoMutex(pool) == TRUE

(* pthread_mutex_lock(&pool->lock) can return *)
PoolLockFree(pool) == pool.lock = NoThread

(* Thread t is inside malloc or free on pool i *)
InPool(t, i) ==
    /\ pc[t] \in {"malloc_locked", "malloc_zero", "free_locked"}
    /\ local[t].pool = i

(* Thread t is inside destroy of pool i *)
InDestroy(t, i) == pc[t] = "destroy_locked" /\ local[t].pool = i

(* The caller may use pool i: it is live and nobody is destroying it *)
Usable(i) == i \in LivePools /\ \A u \in Threads : ~InDestroy(u, i)

(* ------------------------------------------------------------------ *)
(* rseq_percpu_pool_create                                            *)
(* ------------------------------------------------------------------ *)
(* w > (UINTPTR_MAX >> POOL_INDEX_BITS): a bit above the low POOL_INDEX_SHIFT is set *)
WordExceedsMaxPoolLen(w) == WordShr(w, POOL_INDEX_SHIFT) # NullWord

(* Bits above the largest pool length are set in n *)
ExceedsMaxPoolLen(n) == WordExceedsMaxPoolLen(ToWord(n))

(* Mutant: the scan takes its first index, empty or not *)
ScanEmptyFirst(i) == i

(* The loop of lines 291-295 started at i: the first index from i on whose base is
   NULL, MAX_NR_POOLS when there is none.  With n entries in use, an empty one is
   among the first n + 1 indexes. *)
ScanEmpty(i) ==
    LET n == Len(rseq_percpu_pool)
        last == IF i + n < MAX_NR_POOLS - 1 THEN i + n ELSE MAX_NR_POOLS - 1
        empty == {j \in i..last : PoolAt(j).base = NULL}
    IN  IF empty = {} THEN MAX_NR_POOLS
        ELSE CHOOSE j \in empty : \A k \in empty : j <= k

(* Mutant: item_len is not raised to the size of a pointer *)
CreateArgsNoMin(item_len0, percpu_len0, max_nr_cpus, flags) ==
    LET order == rseq_get_count_order_ulong(item_len0)
        item_len == IF order < 0 THEN 0 ELSE 2 ^ order
        percpu_len == rseq_align(percpu_len0, rseq_get_page_len)
    IN  [ok |-> /\ flags \ RSEQ_POOL_FLAGS = {}
                /\ order >= 0
                /\ ~(max_nr_cpus < 0 \/ item_len > percpu_len \/ ExceedsMaxPoolLen(percpu_len)),
         item_len |-> item_len, order |-> order, percpu_len |-> percpu_len]

(* Lines 254-278: [ok, item_len, order, percpu_len] *)
CreateArgs(item_len0, percpu_len0, max_nr_cpus, flags) ==
    LET item_len1 == IF item_len0 < WORD_BYTES THEN WORD_BYTES ELSE item_len0
        order == rseq_get_count_order_ulong(item_len1)
        item_len == IF order < 0 THEN 0 ELSE 2 ^ order
        percpu_len == rseq_align(percpu_len0, rseq_get_page_len)
    IN  [ok |-> /\ flags \ RSEQ_POOL_FLAGS = {}
                /\ order >= 0
                /\ ~(max_nr_cpus < 0 \/ item_len > percpu_len \/ ExceedsMaxPoolLen(percpu_len)),
         item_len |-> item_len, order |-> order, percpu_len |-> percpu_len]

(* The call with the attributes of the pool: init_priv is NULL when no init
   callback is configured, else the private data of the callback.  Up to the scan
   of the directory, under pool_lock *)
rseq_mempool_create(t, item_len, percpu_len, max_nr_cpus, flags, init_priv) ==
    /\ aborted = "no"
    /\ pc[t] = "idle"
    /\ count' = [count EXCEPT !.create = @ + 1]
    /\ LET a == CreateArgs(item_len, percpu_len, max_nr_cpus, flags)
       IN  IF ~a.ok
           THEN /\ Return(t, "create", 0, NULL, EINVAL)
                /\ UNCHANGED pool_lock
           ELSE /\ DirLockFree
                /\ pool_lock' = t
                /\ pc' = [pc EXCEPT ![t] = "create_locked"]
                /\ local' = [local EXCEPT ![t] =
                      [NoLocal EXCEPT !.pool = ScanEmpty(FIRST_POOL),
                                      !.item_len = a.item_len, !.order = a.order,
                                      !.percpu_len = a.percpu_len,
                                      !.max_nr_cpus = max_nr_cpus, !.flags = flags,
                                      !.init_priv = init_priv]]
                /\ UNCHANGED <<ret, set_call>>
    /\ UNCHANGED <<rseq_vars, rseq_percpu_pool, mem, held, freed, aborted, pool_set>>

(* rseq_percpu_pool_create has no init callback *)
rseq_percpu_pool_create(t, item_len, percpu_len, max_nr_cpus, flags) ==
    rseq_mempool_create(t, item_len, percpu_len, max_nr_cpus, flags, NULL)

(* The call with a percpu_len, given as a word, that is a multiple of the page
   length of 2^31 or more: item_len is below it, and the address space of the
   model has no room for a mapping of this length, so that mmap_func fails *)
rseq_percpu_pool_create_large(t, item_len0, percpu_len, max_nr_cpus, flags) ==
    /\ aborted = "no"
    /\ pc[t] = "idle"
    /\ count' = [count EXCEPT !.create = @ + 1]
    /\ LET item_len1 == IF item_len0 < WORD_BYTES THEN WORD_BYTES ELSE item_len0
           order == rseq_get_count_order_ulong(item_len1)
       IN  IF \/ flags \ RSEQ_POOL_FLAGS # {}
              \/ order < 0
              \/ max_nr_cpus < 0
              \/ WordExceedsMaxPoolLen(percpu_len)
           THEN Return(t, "create", 0, NULL, EINVAL)
           ELSE /\ DirLockFree
                /\ Return(t, "create", 0, NULL, ENOMEM)
    /\ UNCHANGED <<rseq_vars, rseq_percpu_pool, pool_lock, mem, held, freed, aborted, pool_set>>

(* The words of its private data where the init callback keeps, for each cpu, how
   many times it was called, and the addr and the len of its last call *)
InitCallWords == 3

(* init_func(priv, addr, len, cpu): the callback counts the call and notes its
   arguments in its private data *)
init_func(m, priv, addr, len, cpu) ==
    LET w == priv + InitCallWords * WORD_BYTES * cpu
    IN  MemWrite(MemWrite(MemWrite(m, w, MemRead(m, w) + 1),
                          w + WORD_BYTES, addr),
                 w + 2 * WORD_BYTES, len)

(* The init callback called for the cpus below ncpus, in order *)
RECURSIVE InitCalls(_, _, _, _, _)
InitCalls(m, priv, base, stride, ncpus) ==
    IF ncpus = 0 THEN m
    ELSE init_func(InitCalls(m, priv, base, stride, ncpus - 1),
                   priv, base + stride * (ncpus - 1), stride, ncpus - 1)

(* Mutant: the init callback is called for CPU 0 only *)
pool_init_cpu0(m, priv, base, stride, max_nr_cpus) ==
    IF priv = NULL THEN m ELSE InitCalls(m, priv, base, stride, 1)

(* The init callback, if one is configured, called once per CPU slice *)
pool_init(m, priv, base, stride, max_nr_cpus) ==
    IF priv = NULL THEN m ELSE InitCalls(m, priv, base, stride, max_nr_cpus)

(* From the end of the scan to the return *)
rseq_percpu_pool_create_found(t) ==
    /\ aborted = "no"
    /\ pc[t] = "create_locked"
    /\ LET l == local[t]
           i == l.pool
       IN  IF i >= MAX_NR_POOLS
           THEN /\ Return(t, "create", 0, NULL, ENOMEM)
                /\ UNCHANGED <<rseq_percpu_pool, mem>>
           ELSE \E base \in MmapResults(l.percpu_len * l.max_nr_cpus) :
                  IF base = NULL
                  THEN /\ Return(t, "create", 0, NULL, ENOMEM)
                       /\ UNCHANGED <<rseq_percpu_pool, mem>>
                  ELSE \E calloc_ok \in BOOLEAN :
                         /\ (RSEQ_POOL_ROBUST \notin l.flags) => calloc_ok
                         /\ rseq_percpu_pool' = PoolStore(rseq_percpu_pool, i,
                               [PoolAt(i) EXCEPT
                                  !.lock = NoThread,
                                  !.base = base,
                                  !.percpu_len = l.percpu_len,
                                  !.max_nr_cpus = l.max_nr_cpus,
                                  !.index = i,
                                  !.item_len = l.item_len,
                                  !.item_order = l.order,
                                  !.free_bitmap =
                                     IF RSEQ_POOL_ROBUST \in l.flags
                                     THEN IF calloc_ok
                                          THEN create_free_bitmap(l.percpu_len \div 2 ^ l.order)
                                          ELSE NULL_BITMAP
                                     ELSE @])
                         /\ mem' = pool_init(mem, l.init_priv, base, l.percpu_len,
                                              l.max_nr_cpus)
                         /\ Return(t, "create", i, i, 0)
    /\ pool_lock' = NoThread
    /\ UNCHANGED <<rseq_vars, held, count, freed, aborted, pool_set>>

(* ------------------------------------------------------------------ *)
(* rseq_percpu_pool_destroy                                           *)
(* ------------------------------------------------------------------ *)
(* The handles of pool i are dropped from a caller's bag: they are invalid *)
DropPool(b, i) == [h \in {x \in DOMAIN b : HandlePoolIndex(x) # i} |-> b[h]]

(* Up to the test of pool->base, under pool_lock *)
rseq_percpu_pool_destroy(t, i) ==
    /\ aborted = "no"
    /\ pc[t] = "idle"
    /\ \A u \in Threads : ~InPool(u, i) /\ ~InDestroy(u, i)
    /\ DirLockFree
    /\ pool_lock' = t
    /\ count' = [count EXCEPT !.destroy = @ + 1]
    /\ pc' = [pc EXCEPT ![t] = "destroy_locked"]
    /\ local' = [local EXCEPT ![t] = [NoLocal EXCEPT !.pool = i, !.node = PoolAt(i).base]]
    /\ UNCHANGED <<rseq_vars, rseq_percpu_pool, mem, ret, set_call, held, freed, aborted, pool_set>>

(* Mutant: only base is cleared in the directory entry *)
DestroyedPoolBaseOnly(pool) == [pool EXCEPT !.base = NULL]

(* memset of the whole struct to 0 *)
DestroyedPool(pool) == ZeroPool

(* The value the function returns where its result is ret *)
DestroyReturnValue(r) == 0

(* The errno the munmap callback leaves: EINVAL from the default callback when it
   failed, none when it returned 0 *)
MunmapErrno(r) == IF r = 0 THEN 0 ELSE EINVAL

(* Mutant: the result of the munmap callback is not tested *)
MunmapFailedNever(r) == FALSE

(* if (ret) goto end; *)
MunmapFailed(r) == r # 0

(* From the test of pool->base to the return *)
rseq_percpu_pool_destroy_end(t) ==
    /\ pc[t] = "destroy_locked"
    /\ aborted = "no"
    /\ LET i == local[t].pool
           pool == PoolAt(i)
       IN  IF local[t].node = NULL
           THEN /\ Return(t, "destroy", i, DestroyReturnValue(-1), ENOENT)
                /\ pool_lock' = NoThread
                /\ UNCHANGED <<rseq_percpu_pool, mem, held, freed, aborted>>
           ELSE \E r \in MunmapResults :
                  IF MunmapFailed(r)
                  THEN /\ Return(t, "destroy", i, DestroyReturnValue(r), MunmapErrno(r))
                       /\ pool_lock' = NoThread
                       /\ UNCHANGED <<rseq_percpu_pool, mem, held, freed, aborted>>
                  ELSE IF destroy_free_bitmap_aborts(pool.free_bitmap,
                                                     pool.percpu_len \div 2 ^ pool.item_order)
                  THEN /\ aborted' = "destroy_free_bitmap"
                       /\ mem' = MemUnmap(mem, pool.base, PoolMapLen(pool))
                       /\ UNCHANGED <<rseq_percpu_pool, pool_lock, pc, local, ret, set_call, held, freed>>
                  ELSE /\ rseq_percpu_pool' = PoolStore(rseq_percpu_pool, i, DestroyedPool(pool))
                       /\ mem' = MemUnmap(mem, pool.base, PoolMapLen(pool))
                       /\ held' = [u \in Threads |-> DropPool(held[u], i)]
                       /\ freed' = [j \in DOMAIN freed \ {i} |-> freed[j]]
                       /\ Return(t, "destroy", i, DestroyReturnValue(r), MunmapErrno(r))
                       /\ pool_lock' = NoThread
                       /\ UNCHANGED aborted
    /\ UNCHANGED <<rseq_vars, count, pool_set>>

(* ------------------------------------------------------------------ *)
(* __rseq_percpu_malloc                                               *)
(* ------------------------------------------------------------------ *)
(* Lock the pool and read the head of the free list *)
__rseq_percpu_malloc(t, i, zeroed) ==
    /\ aborted = "no"
    /\ pc[t] = "idle"
    /\ Usable(i)
    /\ PoolLockFree(PoolAt(i))
    /\ rseq_percpu_pool' = [rseq_percpu_pool EXCEPT ![i].lock = t]
    /\ pc' = [pc EXCEPT ![t] = "malloc_locked"]
    /\ local' = [local EXCEPT ![t] =
          [NoLocal EXCEPT !.pool = i, !.zeroed = zeroed, !.node = PoolAt(i).free_list_head]]
    /\ UNCHANGED <<rseq_vars, pool_lock, mem, ret, set_call, held, count, freed, aborted, pool_set>>

(* Mutant: the head of the free list stays where it was *)
FreeListPopKept(m, node) == node

(* pool->free_list_head = node->next *)
FreeListPop(m, node) == MemRead(m, node)

(* The malloc of thread t returns addr to its caller *)
MallocReturn(t, i, zeroed, addr, err) ==
    /\ Return(t, IF zeroed THEN "zmalloc" ELSE "malloc", i, addr, err)
    /\ held' = IF addr = NullWord THEN held ELSE [held EXCEPT ![t] = BagAdd(@, addr)]

(* Mutant: the last item of the pool is never handed out *)
PoolExhaustedEarly(pool) == pool.next_unused + pool.item_len >= pool.percpu_len

(* pool->next_unused + pool->item_len > pool->percpu_len: no unused item is left *)
PoolExhausted(pool) == pool.next_unused + pool.item_len > pool.percpu_len

(* Take an item from the free list or from the unused part, and unlock *)
__rseq_percpu_malloc_take(t) ==
    /\ aborted = "no"
    /\ pc[t] = "malloc_locked"
    /\ LET i == local[t].pool
           pool == PoolAt(i)
           node == local[t].node
           Finish(item_offset, addr, err) ==
               IF local[t].zeroed /\ addr # NullWord
               THEN /\ pc' = [pc EXCEPT ![t] = "malloc_zero"]
                    /\ local' = [local EXCEPT ![t].item_offset = item_offset, ![t].addr = addr]
                    /\ UNCHANGED <<ret, set_call, held>>
               ELSE MallocReturn(t, i, local[t].zeroed, addr, err)
           Popped == IF FreedOf(i) = <<>> THEN freed
                     ELSE IF Len(FreedOf(i)) = 1 THEN [j \in DOMAIN freed \ {i} |-> freed[j]]
                     ELSE [freed EXCEPT ![i] = Tail(@)]
       IN  IF node # NULL
           THEN LET item_offset == node - pool.base
                IN  /\ rseq_percpu_pool' = [rseq_percpu_pool EXCEPT
                          ![i].free_list_head = FreeListPop(mem, node),
                          ![i].lock = NoThread]
                    /\ Finish(item_offset, EncodeHandle(pool.index, item_offset), 0)
                    /\ freed' = Popped
                    /\ UNCHANGED aborted
           ELSE IF PoolExhausted(pool)
           THEN /\ rseq_percpu_pool' = [rseq_percpu_pool EXCEPT ![i].lock = NoThread]
                /\ Finish(0, NullWord, ENOMEM)
                /\ UNCHANGED <<freed, aborted>>
           ELSE LET item_offset == pool.next_unused
                    m == mask_free_slot(pool.free_bitmap, item_offset \div 2 ^ pool.item_order)
                IN  IF m.abort
                    THEN /\ aborted' = "mask_free_slot"
                         /\ UNCHANGED <<rseq_percpu_pool, pc, local, ret, set_call, held, freed>>
                    ELSE /\ rseq_percpu_pool' = [rseq_percpu_pool EXCEPT
                               ![i].next_unused = @ + pool.item_len,
                               ![i].free_bitmap = m.bitmap,
                               ![i].lock = NoThread]
                         /\ Finish(item_offset, EncodeHandle(pool.index, item_offset), 0)
                         /\ freed' = Popped
                         /\ UNCHANGED aborted
    /\ UNCHANGED <<rseq_vars, pool_lock, mem, count, pool_set>>

(* rseq_percpu_zero_item: the memory after the item is zeroed on every CPU *)
RECURSIVE ZeroItem(_, _, _, _)
ZeroItem(m, pool, item_offset, ncpus) ==
    IF ncpus = 0 THEN m
    ELSE MemZero(ZeroItem(m, pool, item_offset, ncpus - 1),
                 __rseq_pool_percpu_ptr(pool, ncpus - 1, item_offset), pool.item_len)

(* Mutant: the first item of the pool is zeroed, whatever item was taken *)
rseq_percpu_zero_item_first(m, pool, item_offset) == ZeroItem(m, pool, 0, pool.max_nr_cpus)

(* Mutant: only CPU 0's copy of the item is zeroed *)
rseq_percpu_zero_item_cpu0(m, pool, item_offset) == ZeroItem(m, pool, item_offset, 1)

rseq_percpu_zero_item(m, pool, item_offset) ==
    ZeroItem(m, pool, item_offset, pool.max_nr_cpus)

(* The zeroing after the unlock, and the return *)
__rseq_percpu_malloc_zero(t) ==
    /\ aborted = "no"
    /\ pc[t] = "malloc_zero"
    /\ mem' = rseq_percpu_zero_item(mem, PoolAt(local[t].pool), local[t].item_offset)
    /\ MallocReturn(t, local[t].pool, TRUE, local[t].addr, 0)
    /\ UNCHANGED <<rseq_vars, rseq_percpu_pool, pool_lock, count, freed, aborted, pool_set>>

(* ------------------------------------------------------------------ *)
(* rseq_percpu_free                                                   *)
(* ------------------------------------------------------------------ *)
(* Lock the pool, check and clear the bit of the item, read the head *)
rseq_percpu_free(t, ptr) ==
    /\ aborted = "no"
    /\ pc[t] = "idle"
    /\ count.free < MaxFrees
    /\ LET item_offset == HandleItemOffset(ptr)
           pool_index == HandlePoolIndex(ptr)
           pool == PoolAt(pool_index)
       IN  /\ Usable(pool_index)
           /\ PoolLockFree(pool)
           /\ \E mask \in UnmaskMasks(pool.free_bitmap, item_offset \div 2 ^ pool.item_order) :
                LET m == unmask_free_slot(pool.free_bitmap,
                                          item_offset \div 2 ^ pool.item_order, mask)
                IN  IF m.abort
                    THEN /\ aborted' = "unmask_free_slot"
                         /\ UNCHANGED <<rseq_percpu_pool, pc, local, count>>
                    ELSE /\ rseq_percpu_pool' = [rseq_percpu_pool EXCEPT
                               ![pool_index].lock = t,
                               ![pool_index].free_bitmap = m.bitmap]
                         /\ pc' = [pc EXCEPT ![t] = "free_locked"]
                         /\ local' = [local EXCEPT ![t] =
                               [NoLocal EXCEPT !.pool = pool_index,
                                               !.item_offset = item_offset,
                                               !.addr = ptr,
                                               !.node = pool.free_list_head]]
                         /\ count' = [count EXCEPT !.free = @ + 1]
                         /\ UNCHANGED aborted
    /\ UNCHANGED <<rseq_vars, pool_lock, mem, ret, set_call, freed, pool_set>>

(* Mutant: the freed item is not linked to the old head *)
FreeListNextLost(head) == NULL

(* item->next = head *)
FreeListNext(head) == head

(* Link the item at the head of the free list, and unlock *)
rseq_percpu_free_link(t) ==
    /\ aborted = "no"
    /\ pc[t] = "free_locked"
    /\ LET i == local[t].pool
           pool == PoolAt(i)
           head == local[t].node
           item == __rseq_pool_percpu_ptr(pool, 0, local[t].item_offset)
       IN  /\ mem' = MemWrite(mem, item, FreeListNext(head))
           /\ rseq_percpu_pool' = [rseq_percpu_pool EXCEPT
                 ![i].free_list_head = item,
                 ![i].lock = NoThread]
           /\ freed' = (i :> (<<local[t].addr>> \o FreedOf(i))) @@ freed
           /\ Return(t, "free", i, local[t].addr, 0)
    /\ UNCHANGED <<rseq_vars, pool_lock, held, count, aborted, pool_set>>

(* ------------------------------------------------------------------ *)
(* The callers                                                        *)
(* ------------------------------------------------------------------ *)
(* The handles some caller holds or some malloc is about to return *)
AllocatedHandles ==
    UNION {DOMAIN held[t] : t \in Threads}
    \cup {local[t].addr : t \in {u \in Threads : pc[u] = "malloc_zero"}}

(* A caller frees a handle it holds *)
Free(t) ==
    \E ptr \in DOMAIN held[t] :
       /\ rseq_percpu_free(t, ptr)
       /\ held' = IF aborted' = "no" THEN [held EXCEPT ![t] = BagRemove(@, ptr)] ELSE held

(* The word offsets of an item a caller stores to: its first and its last word *)
ItemWords(pool) == {0, pool.item_len - WORD_BYTES}

(* A caller stores a value in one CPU's copy of an item it holds *)
Write(t) ==
    /\ aborted = "no"
    /\ pc[t] = "idle"
    /\ count.write < MaxWrites
    /\ \E ptr \in DOMAIN held[t] :
         LET pool == PoolAt(HandlePoolIndex(ptr))
         IN  /\ Usable(HandlePoolIndex(ptr))
             /\ \E cpu \in 0..(pool.max_nr_cpus - 1), w \in ItemWords(pool) :
                  mem' = MemWrite(mem, __rseq_percpu_ptr(ptr, cpu) + w, UserValue)
    /\ count' = [count EXCEPT !.write = @ + 1]
    /\ ret' = NoRet
    /\ UNCHANGED <<rseq_vars, rseq_percpu_pool, pool_lock, pc, local, held, freed, aborted, set_call, pool_set>>

(* The arguments the callers give to rseq_percpu_pool_create *)
CreateItemLens == {2048}
CreatePercpuLens == {PAGE_LEN}
CreateMaxCpus == {2}
CreateFlags == {{}, {RSEQ_POOL_ROBUST}}
PoolPtrs == 1..MaxCreates

Create(t) ==
    /\ count.create < MaxCreates
    /\ \E item_len \in CreateItemLens, percpu_len \in CreatePercpuLens,
          max_nr_cpus \in CreateMaxCpus, flags \in CreateFlags :
          rseq_percpu_pool_create(t, item_len, percpu_len, max_nr_cpus, flags)

Destroy(t) ==
    /\ count.destroy < MaxDestroys
    /\ \E i \in PoolPtrs : rseq_percpu_pool_destroy(t, i)

Malloc(t) == \E i \in LivePools, zeroed \in BOOLEAN : __rseq_percpu_malloc(t, i, zeroed)

Next ==
    \E t \in Threads :
       \/ Create(t)
       \/ rseq_percpu_pool_create_found(t)
       \/ Destroy(t)
       \/ rseq_percpu_pool_destroy_end(t)
       \/ Malloc(t)
       \/ __rseq_percpu_malloc_take(t)
       \/ __rseq_percpu_malloc_zero(t)
       \/ Free(t)
       \/ rseq_percpu_free_link(t)
       \/ Write(t)

Spec == Init /\ [][Next]_vars

(* ------------------------------------------------------------------ *)
(* One caller, one robust pool with more items than an int has bits   *)
(* ------------------------------------------------------------------ *)
MaxHeld == 33
RobustItemLens == {64}
RobustMaxCpus == {1}

(* The items this caller frees: the first, the one whose bit is the sign bit of
   an int, and the first whose index is not below the width of an int *)
RobustFreeSlots == {0, INT_BITS - 1, INT_BITS}

RobustCaller == "t1"

(* The item index of a handle in its pool *)
ItemIndex(ptr) ==
    HandleItemOffset(ptr) \div 2 ^ PoolAt(HandlePoolIndex(ptr)).item_order

CreateRobust(t) ==
    /\ count.create < MaxCreates
    /\ \E item_len \in RobustItemLens, max_nr_cpus \in RobustMaxCpus :
          rseq_percpu_pool_create(t, item_len, PAGE_LEN, max_nr_cpus, {RSEQ_POOL_ROBUST})

(* The number of handles in a caller's bag *)
RECURSIVE BagTotal(_)
BagTotal(b) ==
    IF DOMAIN b = {} THEN 0
    ELSE LET x == CHOOSE y \in DOMAIN b : TRUE
         IN  b[x] + BagTotal([y \in DOMAIN b \ {x} |-> b[y]])

(* The caller asks for an item while it holds fewer than MaxHeld *)
MallocRobust(t) ==
    /\ BagTotal(held[t]) < MaxHeld
    /\ \E i \in LivePools : __rseq_percpu_malloc(t, i, FALSE)

FreeRobust(t) ==
    \E ptr \in DOMAIN held[t] :
       /\ ItemIndex(ptr) \in RobustFreeSlots
       /\ rseq_percpu_free(t, ptr)
       /\ held' = IF aborted' = "no" THEN [held EXCEPT ![t] = BagRemove(@, ptr)] ELSE held

(* The caller frees again a handle it has freed and has not been given since *)
DoubleFree(t) ==
    \E i \in LivePools :
       \E k \in 1..Len(FreedOf(i)) :
          /\ FreedOf(i)[k] \notin AllocatedHandles
          /\ rseq_percpu_free(t, FreedOf(i)[k])
          /\ UNCHANGED held

NextRobust ==
    \E t \in {RobustCaller} :
       \/ CreateRobust(t)
       \/ rseq_percpu_pool_create_found(t)
       \/ MallocRobust(t)
       \/ __rseq_percpu_malloc_take(t)
       \/ FreeRobust(t)
       \/ DoubleFree(t)
       \/ rseq_percpu_free_link(t)
       \/ Destroy(t)
       \/ rseq_percpu_pool_destroy_end(t)

SpecRobust == Init /\ [][NextRobust]_vars

(* ------------------------------------------------------------------ *)
(* Pools are created and destroyed several times                      *)
(* ------------------------------------------------------------------ *)
MaxDirCreates == 3
MaxDirDestroys == 2
DirPoolPtrs == 1..MaxDirCreates

CreateDir(t) ==
    /\ count.create < MaxDirCreates
    /\ \E item_len \in CreateItemLens, percpu_len \in CreatePercpuLens, flags \in CreateFlags :
          rseq_percpu_pool_create(t, item_len, percpu_len, 1, flags)

DestroyDir(t) ==
    /\ count.destroy < MaxDirDestroys
    /\ \E i \in DirPoolPtrs : rseq_percpu_pool_destroy(t, i)

MallocDir(t) == \E i \in LivePools : __rseq_percpu_malloc(t, i, FALSE)

(* Two threads create and destroy pools *)
NextDir ==
    \E t \in Threads :
       \/ CreateDir(t)
       \/ rseq_percpu_pool_create_found(t)
       \/ DestroyDir(t)
       \/ rseq_percpu_pool_destroy_end(t)

SpecDir == Init /\ [][NextDir]_vars

MaxReuseCreates == 2
MaxReuseDestroys == 1

CreateReuse(t) ==
    /\ count.create < MaxReuseCreates
    /\ \E item_len \in CreateItemLens, percpu_len \in CreatePercpuLens, flags \in CreateFlags :
          rseq_percpu_pool_create(t, item_len, percpu_len, 1, flags)

DestroyReuse(t) ==
    /\ count.destroy < MaxReuseDestroys
    /\ \E i \in 1..MaxReuseCreates : rseq_percpu_pool_destroy(t, i)

(* One caller creates pools, uses them and destroys them *)
NextReuse ==
    \E t \in {RobustCaller} :
       \/ CreateReuse(t)
       \/ rseq_percpu_pool_create_found(t)
       \/ DestroyReuse(t)
       \/ rseq_percpu_pool_destroy_end(t)
       \/ MallocDir(t)
       \/ __rseq_percpu_malloc_take(t)
       \/ Free(t)
       \/ rseq_percpu_free_link(t)
       \/ Write(t)

SpecReuse == Init /\ [][NextReuse]_vars

(* ------------------------------------------------------------------ *)
(* The directory is full: every entry from FIRST_POOL on holds a pool *)
(* ------------------------------------------------------------------ *)
MaxFullCreates == 2
MaxFullDestroys == 1

(* Where the mapping of pool i is: above the addresses mmap hands out later *)
FullBase(i) == MmapSpacing * (NrMmapAddrs + 1) + i * PAGE_LEN

(* The state after MAX_NR_POOLS - 1 successful calls of
   rseq_percpu_pool_create(PAGE_LEN, PAGE_LEN, 1, NULL, 0) *)
InitFull ==
    /\ InitRseqAbi
    /\ kernel = BootKernel(TRUE)
    /\ rseq_percpu_pool =
          SubSeq([i \in FIRST_POOL..(MAX_NR_POOLS - 1) |->
                    [ZeroPool EXCEPT !.base = FullBase(i), !.index = i,
                                     !.item_len = PAGE_LEN,
                                     !.item_order = rseq_get_count_order_ulong(PAGE_LEN),
                                     !.percpu_len = PAGE_LEN, !.max_nr_cpus = 1]],
                 1, MAX_NR_POOLS - 1)
    /\ pool_lock = NoThread
    /\ mem = <<>>
    /\ pc = [t \in Threads |-> "idle"]
    /\ local = [t \in Threads |-> NoLocal]
    /\ ret = NoRet
    /\ held = [t \in Threads |-> EmptyBag]
    /\ count = [create |-> 0, destroy |-> 0, free |-> 0, write |-> 0]
    /\ freed = <<>>
    /\ aborted = "no"
    /\ pool_set = NoPoolSet
    /\ set_call = [t \in Threads |-> NoSetCall]

(* The pools the callers destroy: the first, the second and the last *)
FullPoolPtrs == {FIRST_POOL, FIRST_POOL + 1, MAX_NR_POOLS - 1}

CreateFull(t) ==
    /\ count.create < MaxFullCreates
    /\ \E flags \in CreateFlags :
          rseq_percpu_pool_create(t, PAGE_LEN, PAGE_LEN, 1, flags)

DestroyFull(t) ==
    /\ count.destroy < MaxFullDestroys
    /\ \E i \in FullPoolPtrs : rseq_percpu_pool_destroy(t, i)

NextFull ==
    \E t \in Threads :
       \/ CreateFull(t)
       \/ rseq_percpu_pool_create_found(t)
       \/ DestroyFull(t)
       \/ rseq_percpu_pool_destroy_end(t)

SpecFull == InitFull /\ [][NextFull]_vars

(* ------------------------------------------------------------------ *)
(* One caller, one call of rseq_percpu_pool_create, any arguments     *)
(* ------------------------------------------------------------------ *)
ArgItemLens == {0, 1, 7, 8, 9, 17, 64, 100, PAGE_LEN, PAGE_LEN + 1, 2 * PAGE_LEN}

(* 2^POOL_INDEX_SHIFT, the largest pool length, as a word *)
MaxPoolLenWord == WordShl(ToWord(1), POOL_INDEX_SHIFT)

ArgPercpuLens ==
    {ToWord(n) : n \in {0, 1, PAGE_LEN, PAGE_LEN + 1, 2 * PAGE_LEN}}
    \cup {MaskPoolLen([k \in 1..NrLimbs |-> IF k = 1 THEN LimbBase - PAGE_LEN
                                                      ELSE LimbBase - 1]),
          MaxPoolLenWord,
          WordAdd(MaxPoolLenWord, ToWord(PAGE_LEN))}

ArgMaxCpus == {-1, 0, 1, 2}
ArgFlags == SUBSET {RSEQ_POOL_ROBUST, 2 * RSEQ_POOL_ROBUST}

(* The caller is about to call rseq_percpu_pool_create: its arguments *)
InitArgs ==
    /\ InitRseqAbi
    /\ kernel = BootKernel(TRUE)
    /\ rseq_percpu_pool = <<>>
    /\ pool_lock = NoThread
    /\ mem = <<>>
    /\ pc = [t \in Threads |-> "idle"]
    /\ \E item_len \in ArgItemLens, percpu_len \in ArgPercpuLens,
          max_nr_cpus \in ArgMaxCpus, flags \in ArgFlags :
          local = [t \in Threads |->
                     IF t = RobustCaller
                     THEN [NoLocal EXCEPT !.item_len = item_len,
                                          !.percpu_len_w = percpu_len,
                                          !.max_nr_cpus = max_nr_cpus,
                                          !.flags = flags]
                     ELSE NoLocal]
    /\ ret = NoRet
    /\ held = [t \in Threads |-> EmptyBag]
    /\ count = [create |-> 0, destroy |-> 0, free |-> 0, write |-> 0]
    /\ freed = <<>>
    /\ aborted = "no"
    /\ pool_set = NoPoolSet
    /\ set_call = [t \in Threads |-> NoSetCall]

CreateCall(t) ==
    /\ count.create < MaxCreates
    /\ LET l == local[t]
       IN  IF WordFitsNat(l.percpu_len_w)
           THEN rseq_percpu_pool_create(t, l.item_len, WordLow(l.percpu_len_w),
                                        l.max_nr_cpus, l.flags)
           ELSE rseq_percpu_pool_create_large(t, l.item_len, l.percpu_len_w,
                                              l.max_nr_cpus, l.flags)

NextArgs ==
    \E t \in {RobustCaller} :
       \/ CreateCall(t)
       \/ rseq_percpu_pool_create_found(t)

SpecArgs == InitArgs /\ [][NextArgs]_vars

(* ------------------------------------------------------------------ *)
(* Pool sets                                                          *)
(* ------------------------------------------------------------------ *)
POOL_SET_NR_ENTRIES == POOL_INDEX_SHIFT
EBUSY == 16

(* pool_set->entries[order]; NULL is 0 *)
SetEntry(order) ==
    IF order \in DOMAIN pool_set.entries THEN pool_set.entries[order] ELSE NULL

(* Mutant: the mutex of the pool set excludes nobody *)
SetLockFreeNoMutex == TRUE

(* pthread_mutex_lock(&pool_set->lock) can return *)
SetLockFree == pool_set.lock = NoThread

(* Thread t may call a function of the pool set: it is in no call, the set exists
   and nobody is destroying it *)
SetCallable(t) ==
    /\ aborted = "no"
    /\ pc[t] = "idle"
    /\ set_call[t].op = "none"
    /\ pool_set.alive
    /\ \A u \in Threads : set_call[u].op # "set_destroy"

(* The pool set call of thread t returns val *)
SetReturn(t, op, val, err) ==
    /\ set_call' = [set_call EXCEPT ![t] = NoSetCall]
    /\ ret' = [thread |-> t, op |-> op, pool |-> 0, val |-> val, errno |-> err]

(* rseq_percpu_pool_set_create: calloc gives a zeroed set, or fails *)
rseq_percpu_pool_set_create(t) ==
    /\ aborted = "no"
    /\ pc[t] = "idle"
    /\ \A u \in Threads : set_call[u].op = "none"
    /\ ~pool_set.alive
    /\ \E calloc_ok \in BOOLEAN :
          IF calloc_ok
          THEN /\ pool_set' = [NoPoolSet EXCEPT !.alive = TRUE]
               /\ ret' = [thread |-> t, op |-> "set_create", pool |-> 0, val |-> 1,
                          errno |-> 0]
          ELSE /\ UNCHANGED pool_set
               /\ ret' = [thread |-> t, op |-> "set_create", pool |-> 0, val |-> NULL,
                          errno |-> ENOMEM]
    /\ UNCHANGED <<rseq_vars, rseq_percpu_pool, pool_lock, mem, pc, local, held, count, freed,
                   aborted, set_call>>

(* rseq_percpu_pool_set_add_pool up to the test of the entry, under the set's lock *)
rseq_percpu_pool_set_add_pool(t, i) ==
    /\ SetCallable(t)
    /\ Usable(i)
    /\ SetLockFree
    /\ pool_set' = [pool_set EXCEPT !.lock = t]
    /\ set_call' = [set_call EXCEPT ![t] =
          [NoSetCall EXCEPT !.op = "add_pool", !.stage = "locked", !.pool = i,
                            !.order = PoolAt(i).item_order,
                            !.entry = SetEntry(PoolAt(i).item_order)]]
    /\ UNCHANGED <<rseq_vars, rseq_percpu_pool, pool_lock, mem, pc, local, ret, held, count, freed,
                   aborted>>

(* From the test of the entry to the return *)
rseq_percpu_pool_set_add_pool_end(t) ==
    /\ aborted = "no"
    /\ set_call[t].op = "add_pool"
    /\ set_call[t].stage = "locked"
    /\ IF set_call[t].entry # NULL
       THEN /\ pool_set' = [pool_set EXCEPT !.lock = NoThread]
            /\ SetReturn(t, "add_pool", -1, EBUSY)
       ELSE /\ pool_set' = [pool_set EXCEPT
                  !.lock = NoThread,
                  !.entries = (set_call[t].order :> set_call[t].pool) @@ @,
                  !.added = @ \cup {set_call[t].pool}]
            /\ SetReturn(t, "add_pool", 0, 0)
    /\ UNCHANGED <<rseq_vars, rseq_percpu_pool, pool_lock, mem, pc, local, held, count, freed,
                   aborted>>

(* min_order after line 504 *)
SetMinOrder(order) == IF order > POOL_SET_MIN_ENTRY THEN order ELSE POOL_SET_MIN_ENTRY

(* __rseq_percpu_pool_set_malloc up to the label again *)
__rseq_percpu_pool_set_malloc(t, len, zeroed) ==
    /\ SetCallable(t)
    /\ set_call' = [set_call EXCEPT ![t] =
          [NoSetCall EXCEPT !.op = IF zeroed THEN "set_zmalloc" ELSE "set_malloc",
                            !.stage = "again", !.len = len, !.zeroed = zeroed,
                            !.order = rseq_get_count_order_ulong(len),
                            !.min_order = SetMinOrder(rseq_get_count_order_ulong(len))]]
    /\ UNCHANGED <<rseq_vars, rseq_percpu_pool, pool_lock, mem, pc, local, ret, held, count, freed,
                   aborted, pool_set>>

(* Mutant: the scan takes the largest present pool *)
LastOrder(orders) == CHOOSE o \in orders : \A q \in orders : q <= o

(* Where the loop of lines 509-516 stops: the first of the orders it accepts *)
FirstOrder(orders) == CHOOSE o \in orders : \A q \in orders : o <= q

(* The orders from min_order on with a pool where len fits *)
FittingOrders(min_order, len) ==
    {o \in min_order..(POOL_SET_NR_ENTRIES - 1) :
        SetEntry(o) # NULL /\ PoolAt(SetEntry(o)).item_len >= len}

(* Lines 507-517: the set's lock is taken and the entries are scanned; pool is NULL
   when no entry fits *)
__rseq_percpu_pool_set_malloc_scan(t) ==
    /\ aborted = "no"
    /\ set_call[t].op \in {"set_malloc", "set_zmalloc"}
    /\ set_call[t].stage = "again"
    /\ SetLockFree
    /\ pool_set' = [pool_set EXCEPT !.lock = t]
    /\ LET orders == FittingOrders(set_call[t].min_order, set_call[t].len)
       IN  IF orders = {}
           THEN set_call' = [set_call EXCEPT
                   ![t].stage = "scanned",
                   ![t].order = POOL_SET_NR_ENTRIES,
                   ![t].pool = NULL]
           ELSE set_call' = [set_call EXCEPT
                   ![t].stage = "scanned",
                   ![t].order = FirstOrder(orders),
                   ![t].pool = SetEntry(FirstOrder(orders))]
    /\ UNCHANGED <<rseq_vars, rseq_percpu_pool, pool_lock, mem, pc, local, ret, held, count,
                   freed, aborted>>

(* Mutant: the set's mutex stays with the thread that scanned *)
SetUnlockKept(owner) == owner

(* pthread_mutex_unlock(&pool_set->lock) *)
SetUnlock(owner) == NoThread

(* Lines 519-520 and 531-534: the set's lock is released; without a pool the call
   returns NULL with ENOMEM *)
__rseq_percpu_pool_set_malloc_unlock(t) ==
    /\ aborted = "no"
    /\ set_call[t].op \in {"set_malloc", "set_zmalloc"}
    /\ set_call[t].stage = "scanned"
    /\ pool_set' = [pool_set EXCEPT !.lock = SetUnlock(@)]
    /\ IF set_call[t].pool = NULL
       THEN SetReturn(t, set_call[t].op, NullWord, ENOMEM)
       ELSE /\ set_call' = [set_call EXCEPT ![t].stage = "found"]
            /\ UNCHANGED ret
    /\ UNCHANGED <<rseq_vars, rseq_percpu_pool, pool_lock, mem, pc, local, held, count, freed,
                   aborted>>

(* Line 521: the call of __rseq_percpu_malloc on the pool found *)
__rseq_percpu_pool_set_malloc_call(t) ==
    /\ set_call[t].op \in {"set_malloc", "set_zmalloc"}
    /\ set_call[t].stage = "found"
    /\ __rseq_percpu_malloc(t, set_call[t].pool, set_call[t].zeroed)

(* Mutant: the retry starts at the order that failed *)
RetryMinOrderSame(order) == order

(* min_order = order + 1 *)
RetryMinOrder(order) == order + 1

(* Lines 522-529: the test of what __rseq_percpu_malloc returned *)
__rseq_percpu_pool_set_malloc_ret(t) ==
    /\ aborted = "no"
    /\ set_call[t].op \in {"set_malloc", "set_zmalloc"}
    /\ set_call[t].stage = "returned"
    /\ IF set_call[t].val = NullWord /\ set_call[t].errno = ENOMEM
       THEN /\ set_call' = [set_call EXCEPT
                  ![t].stage = "again",
                  ![t].min_order = RetryMinOrder(set_call[t].order)]
            /\ UNCHANGED ret
       ELSE SetReturn(t, set_call[t].op, set_call[t].val, set_call[t].errno)
    /\ UNCHANGED <<rseq_vars, rseq_percpu_pool, pool_lock, mem, pc, local, held, count, freed,
                   aborted, pool_set>>

(* rseq_percpu_pool_set_destroy up to the loop *)
rseq_percpu_pool_set_destroy(t) ==
    /\ SetCallable(t)
    /\ \A u \in Threads : set_call[u].op = "none"
    /\ set_call' = [set_call EXCEPT ![t] =
          [NoSetCall EXCEPT !.op = "set_destroy", !.stage = "loop",
                            !.order = POOL_SET_MIN_ENTRY]]
    /\ UNCHANGED <<rseq_vars, rseq_percpu_pool, pool_lock, mem, pc, local, ret, held, count, freed,
                   aborted, pool_set>>

(* The loop up to the next entry that is not NULL; after the last, the set is freed *)
rseq_percpu_pool_set_destroy_next(t) ==
    /\ aborted = "no"
    /\ set_call[t].op = "set_destroy"
    /\ set_call[t].stage = "loop"
    /\ LET orders == {o \in set_call[t].order..(POOL_SET_NR_ENTRIES - 1) :
                         SetEntry(o) # NULL}
       IN  IF orders = {}
           THEN /\ pool_set' = NoPoolSet
                /\ SetReturn(t, "set_destroy", 0, 0)
           ELSE /\ set_call' = [set_call EXCEPT
                      ![t].stage = "found",
                      ![t].order = FirstOrder(orders),
                      ![t].pool = SetEntry(FirstOrder(orders))]
                /\ UNCHANGED <<ret, pool_set>>
    /\ UNCHANGED <<rseq_vars, rseq_percpu_pool, pool_lock, mem, pc, local, held, count, freed,
                   aborted>>

(* Line 468: the call of rseq_percpu_pool_destroy on the entry *)
rseq_percpu_pool_set_destroy_call(t) ==
    /\ set_call[t].op = "set_destroy"
    /\ set_call[t].stage = "found"
    /\ rseq_percpu_pool_destroy(t, set_call[t].pool)

(* Lines 469-471: the test of what rseq_percpu_pool_destroy returned *)
rseq_percpu_pool_set_destroy_ret(t) ==
    /\ aborted = "no"
    /\ set_call[t].op = "set_destroy"
    /\ set_call[t].stage = "returned"
    /\ IF set_call[t].val # 0
       THEN /\ SetReturn(t, "set_destroy", set_call[t].val, set_call[t].errno)
            /\ UNCHANGED pool_set
       ELSE /\ pool_set' = [pool_set EXCEPT
                  !.entries = [o \in DOMAIN @ \ {set_call[t].order} |-> @[o]]]
            /\ set_call' = [set_call EXCEPT
                  ![t].stage = "loop",
                  ![t].order = set_call[t].order + 1]
            /\ UNCHANGED ret
    /\ UNCHANGED <<rseq_vars, rseq_percpu_pool, pool_lock, mem, pc, local, held, count, freed,
                   aborted>>

(* The callers of the pool set *)
MaxSetCreates == 2
MaxSetDestroys == 1
SetItemLens == {2048, PAGE_LEN}
SetLens == {0, 8, 2048, 2049, PAGE_LEN, PAGE_LEN + 1}

CreateSet(t) ==
    /\ count.create < MaxSetCreates
    /\ set_call[t].op = "none"
    /\ \E item_len \in SetItemLens :
          rseq_percpu_pool_create(t, item_len, PAGE_LEN, 1, {})

AddPool(t) == \E i \in LivePools : rseq_percpu_pool_set_add_pool(t, i)

SetMalloc(t) ==
    \E len \in SetLens, zeroed \in BOOLEAN : __rseq_percpu_pool_set_malloc(t, len, zeroed)

FreeSet(t) == set_call[t].op = "none" /\ Free(t)

SetDestroy(t) ==
    /\ count.destroy < MaxSetDestroys
    /\ rseq_percpu_pool_set_destroy(t)

(* One caller creates pools, gives them to a pool set, allocates from the set, frees,
   and destroys the set *)
NextSet ==
    \E t \in {RobustCaller} :
       \/ CreateSet(t)
       \/ rseq_percpu_pool_create_found(t)
       \/ rseq_percpu_pool_set_create(t)
       \/ AddPool(t)
       \/ rseq_percpu_pool_set_add_pool_end(t)
       \/ SetMalloc(t)
       \/ __rseq_percpu_pool_set_malloc_scan(t)
       \/ __rseq_percpu_pool_set_malloc_unlock(t)
       \/ __rseq_percpu_pool_set_malloc_call(t)
       \/ __rseq_percpu_malloc_take(t)
       \/ __rseq_percpu_malloc_zero(t)
       \/ __rseq_percpu_pool_set_malloc_ret(t)
       \/ FreeSet(t)
       \/ rseq_percpu_free_link(t)
       \/ SetDestroy(t)
       \/ rseq_percpu_pool_set_destroy_next(t)
       \/ rseq_percpu_pool_set_destroy_call(t)
       \/ rseq_percpu_pool_destroy_end(t)
       \/ rseq_percpu_pool_set_destroy_ret(t)

SpecSet == Init /\ [][NextSet]_vars

SetMallocPlain(t) == \E len \in SetLens : __rseq_percpu_pool_set_malloc(t, len, FALSE)

(* One caller creates pools, gives them to a pool set and allocates from the set
   until it is exhausted *)
NextSetMalloc ==
    \E t \in {RobustCaller} :
       \/ CreateSet(t)
       \/ rseq_percpu_pool_create_found(t)
       \/ rseq_percpu_pool_set_create(t)
       \/ AddPool(t)
       \/ rseq_percpu_pool_set_add_pool_end(t)
       \/ SetMallocPlain(t)
       \/ __rseq_percpu_pool_set_malloc_scan(t)
       \/ __rseq_percpu_pool_set_malloc_unlock(t)
       \/ __rseq_percpu_pool_set_malloc_call(t)
       \/ __rseq_percpu_malloc_take(t)
       \/ __rseq_percpu_pool_set_malloc_ret(t)

(* A thread that can take a step takes one *)
FairSpecSetMalloc == Init /\ [][NextSetMalloc]_vars /\ WF_vars(NextSetMalloc)

(* Two threads create pools and give them to the pool set *)
NextSetAdd ==
    \E t \in Threads :
       \/ CreateSet(t)
       \/ rseq_percpu_pool_create_found(t)
       \/ rseq_percpu_pool_set_create(t)
       \/ AddPool(t)
       \/ rseq_percpu_pool_set_add_pool_end(t)

SpecSetAdd == Init /\ [][NextSetAdd]_vars

(* ------------------------------------------------------------------ *)
(* One caller creates pools with and without an init callback         *)
(* ------------------------------------------------------------------ *)
MaxInitCreates == 2

(* The private data of the init callback: memory of the caller, below the mappings *)
InitPriv == PAGE_LEN
InitPrivs == {NULL, InitPriv}
InitMaxCpus == {1, 2, 3}
InitPercpuLens == {PAGE_LEN, 2 * PAGE_LEN}

CreateInit(t) ==
    /\ count.create < MaxInitCreates
    /\ \E item_len \in CreateItemLens, percpu_len \in InitPercpuLens,
          max_nr_cpus \in InitMaxCpus, init_priv \in InitPrivs :
          rseq_mempool_create(t, item_len, percpu_len, max_nr_cpus, {}, init_priv)

NextInit ==
    \E t \in {RobustCaller} :
       \/ CreateInit(t)
       \/ rseq_percpu_pool_create_found(t)

SpecInit == Init /\ [][NextInit]_vars

(* ------------------------------------------------------------------ *)
(* rseq.c: registration of the current thread                         *)
(* ------------------------------------------------------------------ *)
Cpus == {0, 1}

(* syscall(__NR_rseq, &__rseq_abi, sizeof(struct rseq), flags, RSEQ_SIG) by thread t
   whose cpu_id field holds cpu_id: the outcomes, each with the kernel's state and
   the cpu_id field after the call.  A kernel without the system call fails with
   ENOSYS, a registration of a registered thread with EBUSY, an unregistration of
   a thread that is not registered with EINVAL. *)
sys_rseq(k, t, cpu_id, flags) ==
    LET called == [k EXCEPT !.calls[t] =
                      IF flags = RSEQ_FLAG_UNREGISTER
                      THEN [@ EXCEPT !.unregister = @ + 1]
                      ELSE [@ EXCEPT !.register = @ + 1]]
        fail(e) == {[rc |-> -1, errno |-> e, kernel |-> called, cpu_id |-> cpu_id]}
    IN  IF ~k.available THEN fail(ENOSYS)
        ELSE IF flags = RSEQ_FLAG_UNREGISTER
        THEN IF k.registered[t]
             THEN {[rc |-> 0, errno |-> 0,
                    kernel |-> [called EXCEPT !.registered[t] = FALSE],
                    cpu_id |-> RSEQ_CPU_ID_UNINITIALIZED]}
             ELSE fail(EINVAL)
        ELSE IF k.registered[t]
             THEN fail(EBUSY)
             ELSE {[rc |-> 0, errno |-> 0,
                    kernel |-> [called EXCEPT !.registered[t] = TRUE],
                    cpu_id |-> cpu] : cpu \in Cpus}

(* Thread t is in no call *)
RseqCallable(t) ==
    /\ aborted = "no"
    /\ pc[t] = "idle"
    /\ set_call[t].op = "none"

(* Mutant: every register call makes the system call *)
RegisterAlways(refcount) == TRUE

(* if (__lib_rseq_abi.refcount++) goto end;  the test is on the value before *)
RegisterFirst(refcount) == refcount = U32Zero

(* Mutant: every unregister call makes the system call *)
UnregisterAlways(refcount) == TRUE

(* if (--__lib_rseq_abi.refcount) goto end;  the test is on the value after *)
UnregisterLast(refcount) == U32Dec(refcount) = U32Zero

(* Signals are blocked from signal_off_save to signal_restore and the struct is
   thread-local: the call is one step *)
rseq_register_current_thread(t) ==
    /\ RseqCallable(t)
    /\ LET abi == __lib_rseq_abi[t]
       IN  IF ~RegisterFirst(abi.refcount)
           THEN /\ __lib_rseq_abi' = [__lib_rseq_abi EXCEPT ![t].refcount = U32Inc(@)]
                /\ ret' = [thread |-> t, op |-> "register", pool |-> 0, val |-> 0,
                           errno |-> 0]
                /\ rseq_users' = [rseq_users EXCEPT ![t].registered = @ + 1]
                /\ UNCHANGED kernel
           ELSE \E r \in sys_rseq(kernel, t, abi.cpu_id, 0) :
                   /\ kernel' = r.kernel
                   /\ IF r.rc = 0
                      THEN /\ __lib_rseq_abi' =
                                 [__lib_rseq_abi EXCEPT ![t] =
                                     [cpu_id |-> r.cpu_id, refcount |-> U32Inc(abi.refcount)]]
                           /\ ret' = [thread |-> t, op |-> "register", pool |-> 0,
                                      val |-> 0, errno |-> 0]
                           /\ rseq_users' = [rseq_users EXCEPT ![t].registered = @ + 1]
                      ELSE /\ __lib_rseq_abi' =
                                 [__lib_rseq_abi EXCEPT ![t] =
                                     [cpu_id |-> IF r.errno # EBUSY
                                                 THEN RSEQ_CPU_ID_REGISTRATION_FAILED
                                                 ELSE r.cpu_id,
                                      refcount |-> U32Dec(U32Inc(abi.refcount))]]
                           /\ ret' = [thread |-> t, op |-> "register", pool |-> 0,
                                      val |-> -1, errno |-> r.errno]
                           /\ UNCHANGED rseq_users
    /\ UNCHANGED <<rseq_percpu_pool, pool_lock, mem, pc, local, held, count, freed,
                   aborted, pool_set, set_call>>

rseq_unregister_current_thread(t) ==
    /\ RseqCallable(t)
    /\ LET abi == __lib_rseq_abi[t]
       IN  /\ rseq_users' = [rseq_users EXCEPT ![t].unregistered = @ + 1]
           /\ IF ~UnregisterLast(abi.refcount)
              THEN /\ __lib_rseq_abi' = [__lib_rseq_abi EXCEPT ![t].refcount = U32Dec(@)]
                   /\ ret' = [thread |-> t, op |-> "unregister", pool |-> 0, val |-> 0,
                              errno |-> 0]
                   /\ UNCHANGED kernel
              ELSE \E r \in sys_rseq(kernel, t, abi.cpu_id, RSEQ_FLAG_UNREGISTER) :
                      /\ kernel' = r.kernel
                      /\ __lib_rseq_abi' =
                            [__lib_rseq_abi EXCEPT ![t] =
                                [cpu_id |-> r.cpu_id, refcount |-> U32Dec(abi.refcount)]]
                      /\ ret' = [thread |-> t, op |-> "unregister", pool |-> 0,
                                 val |-> IF r.rc = 0 THEN 0 ELSE -1, errno |-> r.errno]
    /\ UNCHANGED <<rseq_percpu_pool, pool_lock, mem, pc, local, held, count, freed,
                   aborted, pool_set, set_call>>

(* The users of thread t that have registered and not yet unregistered *)
RseqUsers(t) == rseq_users[t].registered - rseq_users[t].unregistered

MaxRseqUsers == 2
MaxRseqCalls == 2

(* One more user of the thread registers; a thread retries a failed registration
   at most MaxRseqCalls times *)
Register(t) ==
    /\ RseqUsers(t) < MaxRseqUsers
    /\ rseq_users[t].registered < MaxRseqUsers + 1
    /\ kernel.calls[t].register < MaxRseqCalls
    /\ rseq_register_current_thread(t)

(* A user that has registered unregisters *)
Unregister(t) ==
    /\ RseqUsers(t) > 0
    /\ rseq_unregister_current_thread(t)

(* The threads start in a kernel with or without sys_rseq; a thread may have been
   registered by its C library before *)
InitRseq ==
    /\ InitRseqAbi
    /\ \E available \in BOOLEAN, libc \in SUBSET Threads :
          /\ available \/ libc = {}
          /\ kernel = [BootKernel(available) EXCEPT
                          !.registered = [t \in Threads |-> t \in libc]]
    /\ rseq_percpu_pool = <<>>
    /\ pool_lock = NoThread
    /\ mem = <<>>
    /\ pc = [t \in Threads |-> "idle"]
    /\ local = [t \in Threads |-> NoLocal]
    /\ ret = NoRet
    /\ held = [t \in Threads |-> EmptyBag]
    /\ count = [create |-> 0, destroy |-> 0, free |-> 0, write |-> 0]
    /\ freed = <<>>
    /\ aborted = "no"
    /\ pool_set = NoPoolSet
    /\ set_call = [t \in Threads |-> NoSetCall]

NextRseq ==
    \E t \in Threads :
       \/ Register(t)
       \/ Unregister(t)

SpecRseq == InitRseq /\ [][NextRseq]_vars

MaxRseqUnregisters == 3

(* Any caller unregisters the thread, whether or not a register came before: the
   function takes no argument and tests nothing before --refcount *)
UnregisterAny(t) ==
    /\ rseq_users[t].unregistered < MaxRseqUnregisters
    /\ rseq_unregister_current_thread(t)

NextRseqAny ==
    \E t \in Threads :
       \/ Register(t)
       \/ UnregisterAny(t)

SpecRseqAny == InitRseq /\ [][NextRseqAny]_vars

(* ------------------------------------------------------------------ *)
(* Two threads in every entry point of the allocator                  *)
(* ------------------------------------------------------------------ *)
MaxLockCreates == 1
MaxLockDestroys == 2
LockLens == {8, PAGE_LEN + 1}

(* A pool that was given to the set, or is being given to it, belongs to the set *)
OwnedBySet(i) ==
    \/ i \in pool_set.added
    \/ \E u \in Threads : set_call[u].op = "add_pool" /\ set_call[u].pool = i

CreateLock(t) ==
    /\ count.create < MaxLockCreates
    /\ set_call[t].op = "none"
    /\ rseq_percpu_pool_create(t, PAGE_LEN, PAGE_LEN, 1, {})

DestroyLock(t) ==
    /\ count.destroy < MaxLockDestroys
    /\ set_call[t].op = "none"
    /\ \E i \in 1..MaxLockCreates : ~OwnedBySet(i) /\ rseq_percpu_pool_destroy(t, i)

MallocLock(t) == set_call[t].op = "none" /\ Malloc(t)

SetMallocLock(t) ==
    \E len \in LockLens, zeroed \in BOOLEAN : __rseq_percpu_pool_set_malloc(t, len, zeroed)

SetDestroyLock(t) ==
    /\ count.destroy < MaxLockDestroys
    /\ rseq_percpu_pool_set_destroy(t)

(* Thread t enters a function of the allocator *)
Enter(t) ==
    \/ CreateLock(t)
    \/ DestroyLock(t)
    \/ MallocLock(t)
    \/ FreeSet(t)
    \/ rseq_percpu_pool_set_create(t)
    \/ AddPool(t)
    \/ SetMallocLock(t)
    \/ SetDestroyLock(t)

(* Thread t goes on in the function it is in *)
Continue(t) ==
    \/ rseq_percpu_pool_create_found(t)
    \/ rseq_percpu_pool_destroy_end(t)
    \/ __rseq_percpu_malloc_take(t)
    \/ __rseq_percpu_malloc_zero(t)
    \/ rseq_percpu_free_link(t)
    \/ rseq_percpu_pool_set_add_pool_end(t)
    \/ __rseq_percpu_pool_set_malloc_scan(t)
    \/ __rseq_percpu_pool_set_malloc_unlock(t)
    \/ __rseq_percpu_pool_set_malloc_call(t)
    \/ __rseq_percpu_pool_set_malloc_ret(t)
    \/ rseq_percpu_pool_set_destroy_next(t)
    \/ rseq_percpu_pool_set_destroy_call(t)
    \/ rseq_percpu_pool_set_destroy_ret(t)

NextLock ==
    \E t \in Threads :
       \/ Enter(t)
       \/ Continue(t)

SpecLock == Init /\ [][NextLock]_vars

(* ------------------------------------------------------------------ *)
(* Properties                                                         *)
(* ------------------------------------------------------------------ *)
(* The allocated handles of pool i *)
HandlesOf(i) == {h \in AllocatedHandles : HandlePoolIndex(h) = i}

(* How many times handle h is allocated: held by a caller or about to be returned *)
AllocCount(h) ==
    Cardinality({<<t, k>> \in Threads \X (1..2) :
                    \/ k = 1 /\ h \in DOMAIN held[t] /\ held[t][h] >= 1
                    \/ k = 2 /\ h \in DOMAIN held[t] /\ held[t][h] >= 2})
    + Cardinality({t \in Threads : pc[t] = "malloc_zero" /\ local[t].addr = h})

(* The number of items of a pool *)
NrItems(pool) == pool.percpu_len \div pool.item_len

(* Thread t's malloc leaves its critical section in this step *)
TakeStep(t) == pc[t] = "malloc_locked" /\ pc'[t] # "malloc_locked"

(* The handle that malloc has decided to return *)
TakeResult(t) == IF pc'[t] = "malloc_zero" THEN local'[t].addr ELSE ret'.val

(* C1: under any interleaving of mallocs and valid frees by several threads, no
   handle is allocated twice at the same time, and two allocated handles of one
   pool never have the same item_offset. *)
C1_NoSlotAllocatedTwice ==
    \A h \in AllocatedHandles :
       /\ AllocCount(h) = 1
       /\ \A g \in HandlesOf(HandlePoolIndex(h)) :
             HandleItemOffset(g) = HandleItemOffset(h) => g = h

(* Both threads hold an item of a pool in which an item was freed and handed out again *)
C1_Witness ==
    \E i \in LivePools :
       /\ count.free >= 1
       /\ \A t \in Threads : \E h \in DOMAIN held[t] : HandlePoolIndex(h) = i
       /\ Cardinality(HandlesOf(i)) * PoolAt(i).item_len = PoolAt(i).next_unused

(* C2: malloc returns the handle freed last among those not handed out again, and
   takes an unused item (moving next_unused) only when no freed item is left. *)
C2_FreeListLIFO ==
    [][\A t \in Threads :
          TakeStep(t) =>
             LET i == local[t].pool
             IN  IF FreedOf(i) # <<>>
                 THEN /\ TakeResult(t) = Head(FreedOf(i))
                      /\ rseq_percpu_pool'[i].next_unused = rseq_percpu_pool[i].next_unused
                 ELSE \/ TakeResult(t) = NullWord
                      \/ /\ HandleItemOffset(TakeResult(t)) = rseq_percpu_pool[i].next_unused
                         /\ rseq_percpu_pool'[i].next_unused =
                               rseq_percpu_pool[i].next_unused + rseq_percpu_pool[i].item_len]_vars

(* Two items were freed and both were handed out again *)
C2_Witness ==
    \E i \in LivePools :
       /\ count.free = 2
       /\ ret.op \in {"malloc", "zmalloc"} /\ ret.val # NullWord
       /\ FreedOf(i) = <<>>
       /\ PoolAt(i).free_list_head = NULL
       /\ Cardinality(HandlesOf(i)) = 2
       /\ PoolAt(i).next_unused = 2 * PoolAt(i).item_len

(* C3: a handle returned by malloc is not zero, its high bits are the index of the
   pool (in 1 .. MAX_NR_POOLS - 1), its low bits are a multiple of item_len below
   the stride; so is every allocated handle. *)
C3_HandleWellFormed ==
    /\ (ret.op \in {"malloc", "zmalloc"} /\ ret.val # NullWord) =>
          /\ WordShr(ret.val, POOL_INDEX_SHIFT) = ToWord(ret.pool)
          /\ PoolAt(ret.pool).index = ret.pool
          /\ ret.pool \in FIRST_POOL..(MAX_NR_POOLS - 1)
          /\ HandleItemOffset(ret.val) % PoolAt(ret.pool).item_len = 0
          /\ HandleItemOffset(ret.val) < PoolAt(ret.pool).percpu_len
    /\ \A h \in AllocatedHandles :
          /\ h # NullWord
          /\ HandlePoolIndex(h) \in LivePools
          /\ HandleItemOffset(h) % PoolAt(HandlePoolIndex(h)).item_len = 0
          /\ HandleItemOffset(h) < PoolAt(HandlePoolIndex(h)).percpu_len

(* malloc returned an item taken from the free list, not the first of its pool *)
C3_Witness ==
    /\ ret.op \in {"malloc", "zmalloc"} /\ ret.val # NullWord
    /\ count.free >= 1
    /\ HandleItemOffset(ret.val) > 0
    /\ Cardinality(HandlesOf(ret.pool)) * PoolAt(ret.pool).item_len
          = PoolAt(ret.pool).next_unused

(* C4: malloc fails exactly when every item of the pool is allocated; it then stores
   ENOMEM and leaves the pool as it was; when exactly one item is not allocated,
   malloc returns that item. *)
C4_ExhaustedPool ==
    [][\A t \in Threads :
          TakeStep(t) =>
             LET i == local[t].pool
                 pool == rseq_percpu_pool[i]
                 full == Cardinality(HandlesOf(i)) = NrItems(pool)
             IN  /\ (TakeResult(t) = NullWord) <=> full
                 /\ full =>
                       /\ ret'.errno = ENOMEM /\ ret'.thread = t /\ ret'.val = NullWord
                       /\ rseq_percpu_pool'[i] = [pool EXCEPT !.lock = NoThread]
                       /\ mem' = mem
                 /\ (Cardinality(HandlesOf(i)) = NrItems(pool) - 1) =>
                       /\ TakeResult(t) # NullWord
                       /\ {HandleItemOffset(h) : h \in HandlesOf(i)}
                             \cup {HandleItemOffset(TakeResult(t))}
                          = {k * pool.item_len : k \in 0..(NrItems(pool) - 1)}]_vars

(* malloc failed with ENOMEM on a pool of which every item is allocated *)
C4_Witness ==
    /\ ret.op \in {"malloc", "zmalloc"}
    /\ ret.val = NullWord
    /\ ret.errno = ENOMEM
    /\ Cardinality(HandlesOf(ret.pool)) = NrItems(PoolAt(ret.pool))

(* The words of mem inside the item of handle h on the given cpu *)
ItemWordsSet(h, cpu) ==
    LET pool == PoolAt(HandlePoolIndex(h))
    IN  {a \in DOMAIN mem :
            /\ a >= __rseq_percpu_ptr(h, cpu)
            /\ a < __rseq_percpu_ptr(h, cpu) + pool.item_len}

(* C5: when zmalloc returns an item, every word of it reads as zero on every CPU. *)
C5_ZmallocZeroed ==
    (ret.op = "zmalloc" /\ ret.val # NullWord) =>
       \A cpu \in 0..(PoolAt(ret.pool).max_nr_cpus - 1) : ItemWordsSet(ret.val, cpu) = {}

(* zmalloc returned an item that was written, freed and handed out again *)
C5_Witness ==
    /\ ret.op = "zmalloc" /\ ret.val # NullWord
    /\ count.write >= 1
    /\ count.free >= 1
    /\ PoolAt(ret.pool).next_unused = PoolAt(ret.pool).item_len

(* C6: destroy returns 0 only when the pool was destroyed: a destroy that stored an
   errno (ENOENT for a pool that is not allocated, the callback's errno when the
   unmap failed) returned -1. *)
C6_DestroyReturnValue ==
    ret.op = "destroy" =>
       /\ (ret.val = 0) <=> (ret.errno = 0)
       /\ (ret.errno # 0) => ret.val = -1

(* The slots of pool i whose bit is set in its bitmap *)
MaskedSlots(i) ==
    UNION {{(k - 1) * BIT_PER_ULONG + b : b \in PoolAt(i).free_bitmap[k]} :
             k \in DOMAIN PoolAt(i).free_bitmap}

(* The slots of pool i that are allocated *)
AllocatedSlots(i) == {ItemIndex(h) : h \in HandlesOf(i)}

(* C7: in a pool that has a bitmap, outside the critical sections, the bit of a
   slot is 1 exactly when the slot is allocated, so the number of zero bits is the
   number of items minus the number of allocated items. *)
C7_BitmapPrecise ==
    \A i \in LivePools :
       (/\ PoolAt(i).free_bitmap # NULL_BITMAP
        /\ \A t \in Threads : pc[t] \notin {"malloc_locked", "free_locked"}) =>
          /\ MaskedSlots(i) = AllocatedSlots(i)
          /\ NrItems(PoolAt(i)) - Cardinality(MaskedSlots(i))
                = NrItems(PoolAt(i)) - Cardinality(HandlesOf(i))

(* C8: in a pool that has a bitmap, a free that gets past the check of the bitmap
   and goes on to link the item is the free of an allocated handle: the free of a
   handle that is not allocated aborts before the free list is modified. *)
C8_DoubleFreeAborts ==
    [][\A t \in Threads :
          (/\ pc[t] = "idle"
           /\ pc'[t] = "free_locked"
           /\ PoolAt(local'[t].pool).free_bitmap # NULL_BITMAP) =>
             local'[t].addr \in AllocatedHandles]_vars

(* C9: the destroy of a pool that has a bitmap, once its memory is unmapped, aborts
   when some item of the pool is allocated, and does not abort when none is. *)
C9_RobustDestroyLeak ==
    [][\A t \in Threads :
          (/\ pc[t] = "destroy_locked"
           /\ PoolAt(local[t].pool).free_bitmap # NULL_BITMAP
           /\ \/ aborted' # aborted
              \/ pc'[t] = "idle" /\ ret'.errno = 0) =>
             ((aborted' = "destroy_free_bitmap") <=> (HandlesOf(local[t].pool) # {}))]_vars

(* The (handle, cpu) pairs of the allocated handles of the pools in use *)
LivePairs ==
    UNION {{<<h, cpu>> : cpu \in 0..(PoolAt(HandlePoolIndex(h)).max_nr_cpus - 1)} :
             h \in {g \in AllocatedHandles : Usable(HandlePoolIndex(g))}}

(* Address a is inside the item of the pair p *)
InItem(a, p) ==
    /\ a >= __rseq_percpu_ptr(p[1], p[2])
    /\ a < __rseq_percpu_ptr(p[1], p[2]) + PoolAt(HandlePoolIndex(p[1])).item_len

(* The addresses whose word differs between this state and the next *)
ChangedWords ==
    {a \in DOMAIN mem \cup DOMAIN mem' : MemRead(mem, a) # MemRead(mem', a)}

(* C10: the address of an allocated handle on a cpu is base + percpu_len * cpu +
   item_offset of its pool, so two cpus' addresses differ by (c2 - c1) * percpu_len;
   the items of distinct (handle, cpu) pairs lie in the mapping and do not overlap;
   a store to one pair's item changes no word of another pair's item. *)
C10_PerCpuAddresses ==
    /\ [](\A p \in LivePairs :
             LET pool == PoolAt(HandlePoolIndex(p[1]))
                 addr == __rseq_percpu_ptr(p[1], p[2])
             IN  /\ addr = pool.base + pool.percpu_len * p[2] + HandleItemOffset(p[1])
                 /\ \A c2 \in 0..(pool.max_nr_cpus - 1) :
                       __rseq_percpu_ptr(p[1], c2) - addr = (c2 - p[2]) * pool.percpu_len
                 /\ pool.base <= addr
                 /\ addr + pool.item_len <= pool.base + PoolMapLen(pool)
                 /\ \A q \in LivePairs \ {p} :
                       LET qaddr == __rseq_percpu_ptr(q[1], q[2])
                           qlen == PoolAt(HandlePoolIndex(q[1])).item_len
                       IN  addr + pool.item_len <= qaddr \/ qaddr + qlen <= addr)
    /\ [][count'.write # count.write =>
             \E p \in LivePairs :
                /\ \A a \in ChangedWords : InItem(a, p)
                /\ \A q \in LivePairs \ {p} : \A a \in ChangedWords : ~InItem(a, q)]_vars

(* Two items are allocated in a pool of two cpus, and a caller has stored a value
   in the second cpu's copy of one of them *)
C10_Witness ==
    /\ count.write = 1
    /\ Cardinality(LivePairs) = 4
    /\ \E p \in LivePairs :
          /\ p[2] = 1
          /\ \E a \in DOMAIN mem : InItem(a, p) /\ mem[a] = UserValue

(* C11: for every allocated handle and every cpu of its pool, the macro
   rseq_percpu_ptr(handle, cpu, stride) is the address __rseq_percpu_ptr finds
   through the directory, and in a pool of one cpu the handle cast to a pointer
   is that address. *)
C11_MacroIsDirectoryAddress ==
    \A p \in LivePairs :
       LET pool == PoolAt(HandlePoolIndex(p[1]))
       IN  /\ rseq_percpu_ptr(p[1], p[2], pool.percpu_len)
                = ToWord(__rseq_percpu_ptr(p[1], p[2]))
           /\ pool.max_nr_cpus = 1 =>
                 rseq_mempool_malloc_cast(p[1]) = ToWord(__rseq_percpu_ptr(p[1], 0))

(* x is the smallest power of two that is at least m *)
IsPow2Ceil(x, m) ==
    /\ \E k \in 0..(INT_BITS - 2) : x = 2 ^ k
    /\ x >= m
    /\ x = 1 \/ x \div 2 < m

(* Thread t calls rseq_percpu_pool_create in this step *)
CreateCallStep(t) ==
    /\ pc[t] = "idle"
    /\ count'.create = count.create + 1
    /\ pc'[t] = "create_locked" \/ ret'.thread = t

(* The create of thread t returns a pool in this step *)
CreateSuccessStep(t) ==
    pc[t] = "create_locked" /\ pc'[t] = "idle" /\ ret'.val # NULL

(* C12: a pool created with item_len L has as item_len the smallest power of two
   that is at least max(L, word size), and item_order is its logarithm. *)
C12_ItemLenRounded ==
    [][\A t \in Threads :
          /\ (CreateCallStep(t) /\ pc'[t] = "create_locked") =>
                /\ IsPow2Ceil(local'[t].item_len,
                              IF local[t].item_len < WORD_BYTES THEN WORD_BYTES
                              ELSE local[t].item_len)
                /\ 2 ^ local'[t].order = local'[t].item_len
          /\ CreateSuccessStep(t) =>
                /\ rseq_percpu_pool'[ret'.val].item_len = local[t].item_len
                /\ rseq_percpu_pool'[ret'.val].item_order = local[t].order]_vars

(* Pools were created with item_len 17 and with item_len 100: they have the item
   lengths 32 and 128 *)
C12_Witness ==
    /\ ret.op = "create" /\ ret.val # NULL
    /\ PoolAt(ret.val).item_len = 32
    /\ PoolAt(ret.val).item_order = 5

(* The percpu_len argument of thread t rounded up to a multiple of the page
   length, as a word *)
PageRounded(w) ==
    IF WordFitsNat(w)
    THEN ToWord(CHOOSE m \in {k * PAGE_LEN : k \in 0..(WordLow(w) \div PAGE_LEN + 1)} :
                   m >= WordLow(w) /\ m - WordLow(w) < PAGE_LEN)
    ELSE w

(* C13: rseq_percpu_pool_create fails with EINVAL, leaving the directory, the
   memory and the directory mutex as they were, exactly when flags has an unknown
   bit, max_nr_cpus < 0, the rounded item_len is above the page-rounded percpu_len,
   or the page-rounded percpu_len is above 2^POOL_INDEX_SHIFT. *)
C13_CreateEinval ==
    [][\A t \in Threads :
          CreateCallStep(t) =>
             LET l == local[t]
                 stride == PageRounded(l.percpu_len_w)
                 item_len == CHOOSE x \in {2 ^ k : k \in 0..(INT_BITS - 2)} :
                                IsPow2Ceil(x, IF l.item_len < WORD_BYTES THEN WORD_BYTES
                                              ELSE l.item_len)
                 rejected == /\ pc'[t] = "idle"
                             /\ ret'.op = "create" /\ ret'.val = NULL
                             /\ ret'.errno = EINVAL
                 invalid == \/ l.flags \ {RSEQ_POOL_ROBUST} # {}
                            \/ l.max_nr_cpus < 0
                            \/ WordFitsNat(stride) /\ item_len > WordLow(stride)
                            \/ /\ WordShr(stride, POOL_INDEX_SHIFT) # NullWord
                               /\ stride # MaxPoolLenWord
             IN  /\ rejected <=> invalid
                 /\ rejected =>
                       /\ rseq_percpu_pool' = rseq_percpu_pool
                       /\ pool_lock' = pool_lock
                       /\ mem' = mem]_vars

(* C14: for any interleaving of concurrent pool_create and pool_destroy calls, a
   successful create never takes the index of a live pool, index 0 is never
   assigned, each successful create takes the lowest-numbered empty slot of
   FIRST_POOL..MAX_NR_POOLS-1 and leaves the live pools as they are; a slot freed
   by destroy is taken again by a later create. *)
C14_LowestEmptySlot ==
    [][/\ \A i \in LivePools' :
             /\ i \in FIRST_POOL..(MAX_NR_POOLS - 1)
             /\ rseq_percpu_pool'[i].index = i
       /\ \A t \in Threads :
             CreateSuccessStep(t) =>
                LET i == ret'.val
                IN  /\ i \in FIRST_POOL..(MAX_NR_POOLS - 1)
                    /\ i \notin LivePools
                    /\ \A j \in FIRST_POOL..(i - 1) : j \in LivePools
                    /\ LivePools' = LivePools \cup {i}
                    /\ \A j \in LivePools : rseq_percpu_pool'[j] = rseq_percpu_pool[j]]_vars

(* The third create took slot 1 again, after the destroy of the pool it held, while
   the pool of slot 2 is live *)
C14_Witness ==
    /\ ret.op = "create"
    /\ ret.val = FIRST_POOL
    /\ count.create = 3
    /\ count.destroy >= 1
    /\ LivePools = {FIRST_POOL, FIRST_POOL + 1}

(* Thread t's call of rseq_percpu_pool_create returns from under pool_lock *)
CreateReturnStep(t) == pc[t] = "create_locked" /\ pc'[t] = "idle"

(* Every entry from FIRST_POOL on holds a live pool *)
DirectoryFull == Cardinality(LivePools) = MAX_NR_POOLS - FIRST_POOL

(* C15: when every directory slot holds a live pool, pool_create returns NULL with
   errno ENOMEM and leaves the directory and the mapped memory unchanged; when the
   map callback returns NULL, pool_create returns NULL with the errno of the
   callback, the scanned slot stays empty and the directory is unchanged; either
   way pool_lock is released, so that a later create finds the slot. *)
C15_CreateFailures ==
    [][\A t \in Threads :
          CreateReturnStep(t) =>
             /\ pool_lock' = NoThread
             /\ DirectoryFull =>
                   /\ local[t].pool = MAX_NR_POOLS
                   /\ ret'.val = NULL
                   /\ ret'.errno = ENOMEM
                   /\ rseq_percpu_pool' = rseq_percpu_pool
                   /\ mem' = mem
             /\ (~DirectoryFull /\ ret'.val = NULL) =>
                   /\ local[t].pool \in FIRST_POOL..(MAX_NR_POOLS - 1)
                   /\ ret'.errno = ENOMEM
                   /\ rseq_percpu_pool' = rseq_percpu_pool
                   /\ local[t].pool \notin LivePools']_vars

(* The map callback failed in the create of one thread, which returned NULL; the
   slot is still empty, and the other thread has taken pool_lock and found it *)
C15_Witness ==
    \E t, u \in Threads :
       /\ ret.thread = t
       /\ ret.op = "create"
       /\ ret.val = NULL
       /\ ret.errno = ENOMEM
       /\ ~DirectoryFull
       /\ pc[u] = "create_locked"
       /\ pool_lock = u
       /\ local[u].pool \in FIRST_POOL..(MAX_NR_POOLS - 1)
       /\ local[u].pool \notin LivePools

(* Struct i of directory dir *)
PoolIn(dir, i) == IF i \in DOMAIN dir THEN dir[i] ELSE ZeroPool

(* Thread t's call of rseq_percpu_pool_destroy unmaps the pool and returns *)
DestroySuccessStep(t) ==
    /\ pc[t] = "destroy_locked"
    /\ pc'[t] = "idle"
    /\ ret'.errno = 0

(* Address a lies in the mapping of pool *)
InMapping(a, pool) == pool.base <= a /\ a < pool.base + pool.percpu_len * pool.max_nr_cpus

(* C16: a successful pool_destroy releases the whole mapping of the pool, base to
   base + percpu_len * max_nr_cpus, and nothing else, and clears its directory
   slot; every pool returned by pool_create, also in a slot a destroyed pool had,
   starts with next_unused = 0, an empty free list, an unlocked mutex, zeroed
   memory, no handle outstanding, and a bitmap, all clear, only if it is robust. *)
C16_DestroyClearsCreateStartsFresh ==
    [][\A t \in Threads :
          /\ DestroySuccessStep(t) =>
                LET i == local[t].pool
                    pool == PoolAt(i)
                IN  /\ PoolIn(rseq_percpu_pool', i) = ZeroPool
                    /\ \A j \in LivePools \ {i} : PoolIn(rseq_percpu_pool', j) = PoolAt(j)
                    /\ DOMAIN mem' = {a \in DOMAIN mem : ~InMapping(a, pool)}
                    /\ \A a \in DOMAIN mem' : mem'[a] = mem[a]
          /\ CreateSuccessStep(t) =>
                LET i == ret'.val
                    pool == PoolIn(rseq_percpu_pool', i)
                IN  /\ pool.base # NULL
                    /\ pool.next_unused = 0
                    /\ pool.free_list_head = NULL
                    /\ pool.lock = NoThread
                    /\ pool.free_bitmap # NULL_BITMAP =>
                          /\ RSEQ_POOL_ROBUST \in local[t].flags
                          /\ \A k \in DOMAIN pool.free_bitmap : pool.free_bitmap[k] = {}
                    /\ \A a \in DOMAIN mem' : ~InMapping(a, pool)
                    /\ \A u \in Threads : \A h \in DOMAIN held'[u] : HandlePoolIndex(h) # i
                    /\ mem' = mem]_vars

(* The second create returned slot 1 again, whose earlier pool had an item freed
   before it was destroyed *)
C16_Witness ==
    /\ ret.op = "create"
    /\ ret.val = FIRST_POOL
    /\ count.create = 2
    /\ count.destroy = 1
    /\ count.free >= 1
    /\ LivePools = {FIRST_POOL}

(* Thread t's call of rseq_percpu_pool_set_add_pool returns *)
AddPoolReturnStep(t) == set_call[t].op = "add_pool" /\ set_call'[t].op = "none"

(* C17: a pool set holds at most one pool per order: set_add_pool of a pool whose
   item_order entry is occupied returns -1 with errno EBUSY and leaves the entries
   unchanged, an add to an empty entry returns 0 and stores the pool there; so of
   two threads that add pools of one order, one succeeds and the other gets EBUSY. *)
C17_AddPoolOnePerOrder ==
    [][\A t \in Threads :
          AddPoolReturnStep(t) =>
             LET i == set_call[t].pool
                 o == PoolAt(i).item_order
             IN  /\ ret'.thread = t
                 /\ ret'.op = "add_pool"
                 /\ pool_set'.lock = NoThread
                 /\ IF SetEntry(o) # NULL
                    THEN /\ ret'.val = -1
                         /\ ret'.errno = EBUSY
                         /\ pool_set'.entries = pool_set.entries
                    ELSE /\ ret'.val = 0
                         /\ pool_set'.entries = (o :> i) @@ pool_set.entries]_vars

(* One thread has added a pool; the other, adding another pool of the same order,
   has found the entry occupied *)
C17_Witness ==
    \E t, u \in Threads :
       /\ t # u
       /\ ret.thread = t
       /\ ret.op = "add_pool"
       /\ ret.val = 0
       /\ set_call[u].op = "add_pool"
       /\ set_call[u].stage = "locked"
       /\ set_call[u].entry # NULL
       /\ set_call[u].entry # set_call[u].pool
       /\ SetEntry(set_call[u].order) = set_call[u].entry
       /\ PoolAt(set_call[u].pool).item_order = PoolAt(set_call[u].entry).item_order

(* Thread t's call of rseq_percpu_pool_set_malloc or _zmalloc returns *)
SetMallocReturnStep(t) ==
    /\ set_call[t].op \in {"set_malloc", "set_zmalloc"}
    /\ set_call'[t].op = "none"

(* An item can be taken from the pool: from its free list or from its unused part *)
HasSpace(pool) == pool.free_list_head # NULL \/ ~PoolExhausted(pool)

(* The order of the smallest power of two that is at least len and the word size *)
SizeClass(len) ==
    LET n == IF len < WORD_BYTES THEN WORD_BYTES ELSE len
    IN  CHOOSE o \in 0..30 : 2 ^ o >= n /\ \A q \in 0..(o - 1) : 2 ^ q < n

(* The orders of the set's pools where len fits *)
FitOrders(len) ==
    {o \in DOMAIN pool_set.entries :
        o >= SizeClass(len) /\ PoolAt(pool_set.entries[o]).item_len >= len}

(* C18: set_percpu_malloc(set, len) returns a handle of the pool of the smallest
   order, from ceil(log2(max(len, word size))) on, whose item_len is at least len
   and which has a free slot: every smaller pool of the set where len fits is
   exhausted; len = 0 starts at the minimum size class.  It returns NULL only when
   every pool where len fits is exhausted. *)
C18_SmallestPoolWithSpace ==
    [][\A t \in Threads :
          SetMallocReturnStep(t) =>
             LET len == set_call[t].len
                 val == ret'.val
             IN  /\ ret'.op = set_call[t].op
                 /\ IF val = NullWord
                    THEN \A o \in FitOrders(len) : ~HasSpace(PoolAt(pool_set.entries[o]))
                    ELSE \E o \in FitOrders(len) :
                            /\ HandlePoolIndex(val) = pool_set.entries[o]
                            /\ val \in DOMAIN held'[t]
                            /\ \A q \in FitOrders(len) :
                                  q < o => ~HasSpace(PoolAt(pool_set.entries[q]))]_vars

(* A request of 2048 bytes found the pool of 2048-byte items full and was given an
   item of the pool of 4096-byte items *)
C18_Witness ==
    \E t \in Threads :
       /\ set_call[t].op = "set_malloc"
       /\ set_call[t].stage = "returned"
       /\ set_call[t].len = 2048
       /\ set_call[t].val # NullWord
       /\ SetEntry(11) # NULL
       /\ PoolAt(SetEntry(11)).item_len = 2048
       /\ ~HasSpace(PoolAt(SetEntry(11)))
       /\ SetEntry(12) # NULL
       /\ HandlePoolIndex(set_call[t].val) = SetEntry(12)

(* Thread t is inside rseq_percpu_pool_set_malloc or _zmalloc *)
InSetMalloc(t) == set_call[t].op \in {"set_malloc", "set_zmalloc"}

(* C19: set_percpu_malloc always terminates: each retry starts its scan at a
   strictly larger order than the one that failed, every attempt is at an entry
   from min_order on, below POOL_SET_NR_ENTRIES, so that no entry is attempted
   twice; a call that returns NULL sets errno to ENOMEM, and no step of the call
   changes the entries of the set. *)
C19_SetMallocTerminates ==
    /\ \A t \in Threads : InSetMalloc(t) ~> ~InSetMalloc(t)
    /\ [][\A t \in Threads :
             InSetMalloc(t) =>
                /\ pool_set'.entries = pool_set.entries
                /\ (set_call[t].stage = "scanned" /\ set_call'[t].stage = "found") =>
                      /\ set_call'[t].order >= set_call[t].min_order
                      /\ set_call'[t].order < POOL_SET_NR_ENTRIES
                /\ (set_call[t].stage = "returned" /\ set_call'[t].stage = "again") =>
                      /\ set_call'[t].min_order > set_call[t].order
                      /\ set_call'[t].min_order > set_call[t].min_order
                /\ (SetMallocReturnStep(t) /\ ret'.val = NullWord) =>
                      ret'.errno = ENOMEM]_vars

(* A request of 2048 bytes has tried the pool of order 11 and then the pool of
   order 12, both exhausted, and is about to scan from order 13 on *)
C19_Witness ==
    \E t \in Threads :
       /\ InSetMalloc(t)
       /\ set_call[t].stage = "again"
       /\ set_call[t].len = 2048
       /\ set_call[t].min_order = 13
       /\ SetEntry(11) # NULL
       /\ SetEntry(12) # NULL

(* Thread t's call of rseq_percpu_pool_set_destroy returns *)
SetDestroyReturnStep(t) == set_call[t].op = "set_destroy" /\ set_call'[t].op = "none"

(* Thread t's rseq_percpu_pool_set_destroy tests what the destroy of a pool returned *)
SetDestroyTestStep(t) == set_call[t].op = "set_destroy" /\ set_call[t].stage = "returned"

(* C20: set_destroy destroys every pool that was added to the set: when it returns
   0, none of them is live; if the destroy of one of the pools fails, leaving the
   pool live, set_destroy stops at that pool and returns the error, and the set
   with its entries stays as it is. *)
C20_SetDestroyAll ==
    [][\A t \in Threads :
          /\ (SetDestroyReturnStep(t) /\ ret'.val = 0) =>
                \A i \in pool_set.added : i \notin LivePools'
          /\ (SetDestroyTestStep(t) /\ set_call[t].pool \in LivePools) =>
                /\ SetDestroyReturnStep(t)
                /\ ret'.val # 0
                /\ pool_set' = pool_set]_vars

(* The word of the init callback's private data that is k words into its notes
   about cpu *)
InitNote(m, priv, cpu, k) == MemRead(m, priv + (InitCallWords * cpu + k) * WORD_BYTES)

(* C21: when an init callback is configured, a pool_create that succeeds has called
   it exactly once for each cpu below max_nr_cpus, with the address
   base + percpu_len * cpu of the new mapping, the length percpu_len and that cpu,
   and for no other cpu; a create without init callback, or one that fails, makes
   no call. *)
C21_InitOncePerCpu ==
    [][\A t \in Threads :
          CreateReturnStep(t) =>
             LET priv == local[t].init_priv
                 pool == PoolIn(rseq_percpu_pool', ret'.val)
             IN  IF ret'.val # NULL /\ priv # NULL
                 THEN \A cpu \in 0..3 :
                        IF cpu < local[t].max_nr_cpus
                        THEN /\ InitNote(mem', priv, cpu, 0) = InitNote(mem, priv, cpu, 0) + 1
                             /\ InitNote(mem', priv, cpu, 1) = pool.base + pool.percpu_len * cpu
                             /\ InitNote(mem', priv, cpu, 2) = pool.percpu_len
                        ELSE \A k \in 0..2 :
                                InitNote(mem', priv, cpu, k) = InitNote(mem, priv, cpu, k)
                 ELSE mem' = mem]_vars

(* Two pools were created with the init callback, the second for three cpus: the
   callback was called twice for cpu 0 and once for cpu 2, last on the slices of the
   second pool *)
C21_Witness ==
    /\ ret.op = "create"
    /\ ret.val = FIRST_POOL + 1
    /\ PoolAt(ret.val).max_nr_cpus = 3
    /\ InitNote(mem, InitPriv, 0, 0) = 2
    /\ InitNote(mem, InitPriv, 2, 0) = 1
    /\ InitNote(mem, InitPriv, 2, 1) = PoolAt(ret.val).base + 2 * PoolAt(ret.val).percpu_len

(* Thread t returns from rseq_register_current_thread *)
RegisterStep(t) ==
    /\ ret'.thread = t
    /\ ret'.op = "register"
    /\ __lib_rseq_abi'[t] # __lib_rseq_abi[t] \/ kernel'.calls[t] # kernel.calls[t]

(* Thread t returns from rseq_unregister_current_thread *)
UnregisterStep(t) ==
    /\ ret'.thread = t
    /\ ret'.op = "unregister"
    /\ rseq_users'[t] # rseq_users[t]

(* C22: when every unregister matches an earlier successful register, a register
   call makes the kernel registration call exactly when the count is 0 (it goes
   0 to 1), an unregister call makes the kernel unregistration call exactly when
   the count is 1 (it goes 1 to 0), neither makes the other kernel call, the count
   is the number of users registered and not yet unregistered, and the thread is
   registered with the kernel as long as there is such a user. *)
C22_RegistrationRefCounted ==
    [][\A t \in Threads :
          /\ RegisterStep(t) =>
                /\ kernel'.calls[t].register =
                      kernel.calls[t].register
                      + (IF __lib_rseq_abi[t].refcount = U32Zero THEN 1 ELSE 0)
                /\ kernel'.calls[t].unregister = kernel.calls[t].unregister
          /\ UnregisterStep(t) =>
                /\ kernel'.calls[t].unregister =
                      kernel.calls[t].unregister
                      + (IF __lib_rseq_abi[t].refcount = <<0, 1>> THEN 1 ELSE 0)
                /\ kernel'.calls[t].register = kernel.calls[t].register
          /\ __lib_rseq_abi'[t].refcount = <<0, RseqUsers(t)'>>
          /\ RseqUsers(t)' >= 1 => kernel'.registered[t]]_vars

(* Two users registered the thread and both unregistered: one kernel registration,
   one kernel unregistration, and the thread is no longer registered *)
C22_Witness ==
    \E t \in Threads :
       /\ ret.thread = t
       /\ ret.op = "unregister"
       /\ rseq_users[t] = [registered |-> 2, unregistered |-> 2]
       /\ kernel.calls[t] = [register |-> 1, unregister |-> 1]
       /\ ~kernel.registered[t]

(* The mutexes thread t holds: the directory mutex, the mutexes of pools, the mutex
   of the pool set *)
HeldMutexes(t) ==
    (IF pool_lock = t THEN {<<"pool_lock", 0>>} ELSE {})
    \cup {<<"pool", i>> : i \in {j \in DOMAIN rseq_percpu_pool : rseq_percpu_pool[j].lock = t}}
    \cup (IF pool_set.lock = t THEN {<<"pool_set", 0>>} ELSE {})

(* Thread t is inside a function of the allocator *)
InCall(t) == pc[t] # "idle" \/ set_call[t].op # "none"

(* C23: no thread holds two of the directory mutex, a pool's mutex and the pool
   set's mutex at once; a thread that is in no entry point holds none (every path
   to a return releases what it took); and there is no deadlock: a thread inside an
   entry point can take its next step, or another thread inside one can. *)
C23_OneMutexNoDeadlock ==
    \A t \in Threads :
       /\ Cardinality(HeldMutexes(t)) <= 1
       /\ ~InCall(t) => HeldMutexes(t) = {}
       /\ (InCall(t) /\ aborted = "no") =>
             \/ ENABLED Continue(t)
             \/ \E u \in Threads \ {t} : InCall(u) /\ ENABLED Continue(u)

(* A thread in set malloc has released the set's mutex and waits for the mutex of
   the pool it found, which another thread holds *)
C23_Witness ==
    \E t \in Threads, u \in Threads :
       /\ t # u
       /\ InSetMalloc(t)
       /\ set_call[t].stage = "found"
       /\ PoolAt(set_call[t].pool).lock = u
       /\ HeldMutexes(t) = {}
       /\ ~ENABLED Continue(t)

(* The nodes reached from node in at most n steps along the next links read in m *)
RECURSIVE FreeChain(_, _, _)
FreeChain(m, node, n) ==
    IF node = NULL \/ n = 0 THEN <<>>
    ELSE <<node>> \o FreeChain(m, MemRead(m, node), n - 1)

(* The free list of the pool as memory m holds it; it is longer than the number of
   items when the links never reach NULL *)
FreeList(m, pool) == FreeChain(m, pool.free_list_head, NrItems(pool) + 1)

(* The free list ends with NULL and has no node twice; its nodes are the starts of
   items below next_unused in CPU 0's slice *)
FreeListWellFormed(m, pool) ==
    LET l == FreeList(m, pool)
    IN  /\ Len(l) <= NrItems(pool)
        /\ \A j, k \in DOMAIN l : j # k => l[j] # l[k]
        /\ \A k \in DOMAIN l :
              /\ l[k] >= pool.base
              /\ l[k] < pool.base + pool.next_unused
              /\ (l[k] - pool.base) % pool.item_len = 0

(* Address a lies in a cpu's copy of the item at item_offset of the pool *)
InSlot(a, pool, item_offset) ==
    \E cpu \in 0..(pool.max_nr_cpus - 1) :
       /\ a >= __rseq_pool_percpu_ptr(pool, cpu, item_offset)
       /\ a < __rseq_pool_percpu_ptr(pool, cpu, item_offset) + pool.item_len

(* Thread t's zmalloc zeroes the item and returns *)
ZeroStep(t) == pc[t] = "malloc_zero" /\ pc'[t] # "malloc_zero"

(* C24: zmalloc zeroes the item after it has released the pool's mutex; under any
   interleaving with malloc, zmalloc and free of other threads the item it zeroes
   is not on the free list and is held by no caller, the zeroing changes no word
   outside that item, none in a slot of the free list and none in an item another
   thread holds, and the free list is the same well-formed chain afterwards. *)
C24_ZeroingOutsideLockIsSafe ==
    [][\A t \in Threads :
          ZeroStep(t) =>
             LET i == local[t].pool
                 pool == PoolAt(i)
                 item_offset == local[t].item_offset
                 list == FreeList(mem, pool)
             IN  /\ pool.lock # t
                 /\ \A k \in DOMAIN list : list[k] # pool.base + item_offset
                 /\ \A u \in Threads : local[t].addr \notin DOMAIN held[u]
                 /\ \A a \in ChangedWords :
                       /\ InSlot(a, pool, item_offset)
                       /\ \A k \in DOMAIN list : ~InSlot(a, pool, list[k] - pool.base)
                       /\ \A u \in Threads \ {t} :
                             \A h \in DOMAIN held[u] :
                                HandlePoolIndex(h) = i =>
                                   ~InSlot(a, pool, HandleItemOffset(h))
                 /\ FreeListWellFormed(mem, pool)
                 /\ FreeListWellFormed(mem', PoolIn(rseq_percpu_pool', i))
                 /\ FreeList(mem', PoolIn(rseq_percpu_pool', i)) = list]_vars

(* A zmalloc has returned an item it took from the free list, while the pool's
   other item is on the free list and the other thread is inside the critical
   section of the same pool *)
C24_Witness ==
    \E u \in Threads :
       /\ ret.op = "zmalloc"
       /\ ret.val # NullWord
       /\ u # ret.thread
       /\ count.free = 2
       /\ PoolAt(ret.pool).free_list_head # NULL
       /\ pc[u] = "malloc_locked"
       /\ local[u].pool = ret.pool

(* What a pool without bitmap returns from the state the critical section of malloc
   finds: the head of the free list, else NULL when the pool is exhausted, else
   the item at next_unused *)
PlainTake(pool, node) ==
    IF node # NULL THEN EncodeHandle(pool.index, node - pool.base)
    ELSE IF PoolExhausted(pool) THEN NullWord
    ELSE EncodeHandle(pool.index, pool.next_unused)

(* C25: driven by mallocs and valid frees, a robust pool returns what a pool
   without bitmap returns from the same free list and next_unused, and ENOMEM in
   the same cases, and its checks never abort: neither in malloc nor in free,
   also when an item is freed, allocated again from the free list and freed
   again. *)
C25_RobustRefinesPlain ==
    [][/\ aborted' \notin {"mask_free_slot", "unmask_free_slot"}
       /\ \A t \in Threads :
             TakeStep(t) =>
                /\ TakeResult(t) = PlainTake(PoolAt(local[t].pool), local[t].node)
                /\ (TakeResult(t) = NullWord /\ pc'[t] = "idle") => ret'.errno = ENOMEM]_vars

(* Thread t's free gets past the check of the bitmap *)
FreeCheckedStep(t) == pc[t] = "idle" /\ pc'[t] = "free_locked"

(* Every handle in a caller's hands has its bit set and no item was freed yet: the
   items were all taken from next_unused and the next free is a first free *)
AllFromBump ==
    /\ freed = <<>>
    /\ \A h \in AllocatedHandles :
          PoolAt(HandlePoolIndex(h)).free_bitmap # NULL_BITMAP =>
             ItemIndex(h) \in MaskedSlots(HandlePoolIndex(h))

(* C26: in a pool that has a bitmap, the first free of an item taken from
   next_unused, whatever its index, also 31 and above, passes the check and clears
   exactly the bit of that index, at the width of a bitmap word, and leaves every
   other bit as it was. *)
C26_FreeClearsExactlyItsBit ==
    [][/\ AllFromBump => aborted' # "unmask_free_slot"
       /\ \A t \in Threads :
             (/\ FreeCheckedStep(t)
              /\ PoolAt(local'[t].pool).free_bitmap # NULL_BITMAP
              /\ ItemIndex(local'[t].addr) \in MaskedSlots(local'[t].pool)) =>
                LET i == local'[t].pool
                    before == MaskedSlots(i)
                    after == UNION {{(k - 1) * BIT_PER_ULONG + b :
                                        b \in rseq_percpu_pool'[i].free_bitmap[k]} :
                                      k \in DOMAIN rseq_percpu_pool'[i].free_bitmap}
                IN  after = before \ {ItemIndex(local'[t].addr)}]_vars

(* The directory entries other than i are the same in the next state *)
OtherPoolsSame(i) ==
    \A j \in (DOMAIN rseq_percpu_pool \cup DOMAIN rseq_percpu_pool') \ {i} :
       PoolIn(rseq_percpu_pool', j) = PoolIn(rseq_percpu_pool, j)

(* The item indexes whose bit is set in a bitmap *)
BitmapSlots(bitmap) ==
    UNION {{(k - 1) * BIT_PER_ULONG + b : b \in bitmap[k]} : k \in DOMAIN bitmap}

(* Thread t's free links the item and returns *)
FreeLinkStep(t) == pc[t] = "free_locked" /\ pc'[t] = "idle"

(* C27: the free of an allocated handle h writes only the link word at the start
   of h's item in CPU 0's slice (the old head), the head of the free list and, in a
   pool with bitmap, the bit of h; it changes no other word of memory, no other
   bit, not next_unused, and no other pool.  A malloc that does not zero writes no
   memory, and zmalloc writes only inside the per-cpu copies of the item it
   returns. *)
C27_FrameOfFreeAndMalloc ==
    [][\A t \in Threads :
          /\ (FreeCheckedStep(t) /\ local'[t].addr \in AllocatedHandles) =>
                LET i == local'[t].pool
                    pool == PoolAt(i)
                    new == PoolIn(rseq_percpu_pool', i)
                IN  /\ mem' = mem
                    /\ [new EXCEPT !.lock = pool.lock, !.free_bitmap = pool.free_bitmap] = pool
                    /\ BitmapSlots(new.free_bitmap) \subseteq BitmapSlots(pool.free_bitmap)
                    /\ BitmapSlots(pool.free_bitmap) \ BitmapSlots(new.free_bitmap)
                          \subseteq {ItemIndex(local'[t].addr)}
                    /\ OtherPoolsSame(i)
          /\ FreeLinkStep(t) =>
                LET i == local[t].pool
                    pool == PoolAt(i)
                    new == PoolIn(rseq_percpu_pool', i)
                    item == pool.base + local[t].item_offset
                IN  /\ ChangedWords \subseteq {item}
                    /\ MemRead(mem', item) = pool.free_list_head
                    /\ new.free_list_head = item
                    /\ [new EXCEPT !.lock = pool.lock,
                                   !.free_list_head = pool.free_list_head] = pool
                    /\ OtherPoolsSame(i)
          /\ (pc[t] = "idle" /\ pc'[t] = "malloc_locked") => mem' = mem
          /\ TakeStep(t) => mem' = mem
          /\ ZeroStep(t) =>
                /\ \A a \in ChangedWords :
                      InSlot(a, PoolAt(local[t].pool), local[t].item_offset)
                /\ rseq_percpu_pool' = rseq_percpu_pool]_vars

(* The item indexes of the nodes of the pool's free list *)
FreeListSlots(pool) ==
    {(FreeList(mem, pool)[k] - pool.base) \div pool.item_len :
        k \in DOMAIN FreeList(mem, pool)}

(* C28: whenever the mutex of a pool is not held, next_unused is a multiple of
   item_len between 0 and percpu_len, the free list is a chain that ends with NULL,
   has no node twice and only nodes at multiples of item_len below next_unused in
   CPU 0's slice, and every item below next_unused is either on the free list or
   allocated, never both. *)
C28_PoolInvariant ==
    \A i \in LivePools :
       LET pool == PoolAt(i)
       IN  pool.lock = NoThread =>
              /\ pool.next_unused % pool.item_len = 0
              /\ pool.next_unused >= 0
              /\ pool.next_unused <= pool.percpu_len
              /\ FreeListWellFormed(mem, pool)
              /\ FreeListSlots(pool) \cap AllocatedSlots(i) = {}
              /\ FreeListSlots(pool) \cup AllocatedSlots(i)
                    = 0..(pool.next_unused \div pool.item_len - 1)

(* Both items of a pool were handed out and freed; one was allocated again and the
   other is on the free list, and nobody is in the pool *)
C28_Witness ==
    \E i \in LivePools :
       /\ PoolAt(i).lock = NoThread
       /\ PoolAt(i).next_unused = PoolAt(i).percpu_len
       /\ count.free = 2
       /\ Cardinality(FreeListSlots(PoolAt(i))) = 1
       /\ Cardinality(AllocatedSlots(i)) = 1
       /\ \A t \in Threads : pc[t] = "idle"

(* Thread t's destroy of a pool that is allocated returns after its munmap callback
   failed *)
DestroyUnmapFailedStep(t) ==
    /\ pc[t] = "destroy_locked"
    /\ pc'[t] = "idle"
    /\ local[t].node # NULL
    /\ ret'.errno # 0

(* C29: when the munmap callback fails in pool_destroy, the pool is left as it
   was: its directory entry keeps base, percpu_len, free list, next_unused, bitmap
   and mutex, no memory and no other entry changes, the handles stay with their
   holders, the directory mutex is released, and the pool can be entered by
   malloc and free again. *)
C29_FailedUnmapLeavesPool ==
    [][\A t \in Threads :
          DestroyUnmapFailedStep(t) =>
             LET i == local[t].pool
             IN  /\ i \in LivePools
                 /\ rseq_percpu_pool' = rseq_percpu_pool
                 /\ mem' = mem
                 /\ held' = held
                 /\ freed' = freed
                 /\ aborted' = "no"
                 /\ pool_lock = t
                 /\ pool_lock' = NoThread
                 /\ PoolIn(rseq_percpu_pool', i).lock = NoThread
                 /\ \A u \in Threads : ~(pc'[u] = "destroy_locked" /\ local'[u].pool = i)
                 /\ ret'.errno = EINVAL]_vars

(* A destroy has returned after its munmap callback failed, on a pool with an item
   in a caller's hands and an item on the free list *)
C29_Witness ==
    /\ ret.op = "destroy"
    /\ ret.errno = EINVAL
    /\ ret.pool \in LivePools
    /\ HandlesOf(ret.pool) # {}
    /\ PoolAt(ret.pool).free_list_head # NULL
    /\ pool_lock = NoThread

(* Thread t's destroy goes from the test of pool->base to its return *)
DestroyEndStep(t) == pc[t] = "destroy_locked" /\ pc'[t] = "idle"

(* What a step from the test of pool->base to the return of destroy does when
   several threads destroy the same pool: the munmap callback is called only for
   a mapping that is still there, by the only thread inside destroy, and when it
   succeeds the entry is emptied and its bitmap released with it; a call that
   finds the entry emptied by another thread's destroy stores ENOENT and touches
   neither memory nor the directory *)
DestroyOnce(t) ==
    LET i == local[t].pool
    IN  /\ pool_lock = t
        /\ \A u \in Threads \ {t} : pc[u] # "destroy_locked"
        /\ IF local[t].node # NULL
           THEN /\ PoolAt(i).base = local[t].node
                /\ ret'.errno = 0 =>
                      /\ PoolIn(rseq_percpu_pool', i) = ZeroPool
                      /\ \A a \in DOMAIN mem' : ~InMapping(a, PoolAt(i))
                      /\ \A a \in ChangedWords : InMapping(a, PoolAt(i))
                /\ ret'.errno # 0 => rseq_percpu_pool' = rseq_percpu_pool /\ mem' = mem
           ELSE /\ ret'.errno = ENOENT
                /\ rseq_percpu_pool' = rseq_percpu_pool
                /\ mem' = mem

(* The last call that returned was another thread's successful destroy of the pool
   thread t is destroying *)
DestroyedByOther(t) ==
    /\ ret.op = "destroy"
    /\ ret.pool = local[t].pool
    /\ ret.errno = 0
    /\ ret.thread # t

(* C30: when several threads call pool_destroy on the same live pool, one call
   unmaps the mapping and releases the bitmap, once; every other call finds the
   entry empty, touches nothing and fails: it returns -1 with errno ENOENT. *)
C30_ConcurrentDestroyOnce ==
    [][\A t \in Threads :
          DestroyEndStep(t) =>
             /\ DestroyOnce(t)
             /\ (local[t].node = NULL /\ DestroyedByOther(t)) =>
                   /\ ret'.val = -1
                   /\ ret'.errno = ENOENT]_vars

(* The registration count of thread t is a number from 0 to the number of its
   successful register calls *)
RefcountInRange(abi, users) ==
    /\ abi.refcount[1] = 0
    /\ abi.refcount[2] <= users.registered

(* C31: the per-thread registration count never wraps and is the number of
   successful register calls minus the number of unregister calls: a register
   whose kernel call fails returns -1 and leaves the count as it was (a register
   at count 0 always makes the kernel call, so a failed one is retried), a
   successful register adds one, an unregister at a count above 0 takes one off,
   and an unregister at count 0 leaves the count at 0, so that the thread is not
   counted as registered. *)
C31_RefcountNeverWraps ==
    [][\A t \in Threads :
          /\ RegisterStep(t) =>
                /\ ret'.val \in {0, -1}
                /\ ret'.val = -1 =>
                      __lib_rseq_abi'[t].refcount = __lib_rseq_abi[t].refcount
                /\ ret'.val = 0 =>
                      __lib_rseq_abi'[t].refcount = U32Inc(__lib_rseq_abi[t].refcount)
                /\ __lib_rseq_abi[t].refcount = U32Zero =>
                      kernel'.calls[t].register = kernel.calls[t].register + 1
          /\ UnregisterStep(t) =>
                __lib_rseq_abi'[t].refcount =
                   IF __lib_rseq_abi[t].refcount = U32Zero
                   THEN U32Zero
                   ELSE U32Dec(__lib_rseq_abi[t].refcount)
          /\ RefcountInRange(__lib_rseq_abi'[t], rseq_users'[t])]_vars

====
